---------------------------- MODULE Spec2Model ----------------------------
(***************************************************************************)
(* A model of the RFID reader/writer communication layer:                  *)
(*   - rfid_protocol.py  RFIDProtocol (frame construction, transactions)   *)
(*   - read_rfid_tag.py  construct_read_command, parse_rfid_response,      *)
(*                       construct_write_command                           *)
(*   - main.py           RFIDReaderThread (worker loop, continuous action  *)
(*                       state) and the RFIDReaderApp handlers calling it  *)
(*                                                                         *)
(* Bytes are naturals 0..255, byte strings are sequences of bytes.  Python *)
(* None is the empty sequence <<>>, a present value x is <<x>>.            *)
(***************************************************************************)
EXTENDS Integers, Sequences, FiniteSets, TLC

None == <<>>
Some(x) == <<x>>

\* a dict without keys
EmptyRecord == <<>>

\* d.get(key, default)
Get(d, key, default) == IF key \in DOMAIN d THEN d[key] ELSE default

\* bool(value) of a value that is None or a dict: None and {} are falsy
Truthy(value) == value # None /\ DOMAIN value[1] # {}

\* ------------------------------------------------------------ bytes ----

\* a ^ b on naturals (Python's ^), bit by bit from the lowest; x and y
\* are the operands, evaluated once
RECURSIVE BitXor(_, _)
BitXor(a, b) ==
    CHOOSE r \in { IF x = 0 THEN y
                   ELSE IF y = 0 THEN x
                   ELSE ((x + y) % 2) + 2 * BitXor(x \div 2, y \div 2) :
                   x \in { a }, y \in { b } } : TRUE

\* bcc_val = 0; for b in data: bcc_val ^= b
\* (folded by halves: the result of the loop, whatever the grouping)
RECURSIVE XorRange(_, _, _)
XorRange(bs, lo, hi) ==
    IF lo > hi THEN 0
    ELSE IF lo = hi THEN bs[lo]
    ELSE LET mid == (lo + hi) \div 2
         IN  BitXor(XorRange(bs, lo, mid), XorRange(bs, mid + 1, hi))

\* (x is bs, evaluated once)
XorAll(bs) == CHOOSE r \in { XorRange(x, 1, Len(x)) : x \in { bs } } : TRUE

\* a variant of ComplementByte that leaves the XOR as it is
ComplementByte_Plain(v) == v

\* (~bcc_val) & 0xFF
ComplementByte(v) == 255 - v

\* b'\x00' * n
Zeros(n) == [i \in 1..n |-> 0]

\* Python slice bs[lo:hi] for 0 <= lo, 0-based, hi exclusive, clipped to
\* len (x is bs, evaluated once)
Slice(bs, lo, hi) ==
    CHOOSE r \in { LET h == IF hi > Len(x) THEN Len(x) ELSE hi
                   IN  IF lo >= h THEN <<>>
                       ELSE [i \in 1..(h - lo) |-> x[lo + i]] :
                   x \in { bs } } : TRUE

\* s.encode('ascii', errors='ignore'): code points above 127 are dropped
AsciiIgnore(s) == SelectSeq(s, LAMBDA c : c < 128)

\* bs.ljust(n, b'\x00')
Ljust(bs, n) == IF Len(bs) >= n THEN bs ELSE bs \o Zeros(n - Len(bs))

\* struct.pack('>H', v): two bytes big-endian; struct.error outside 0..65535
PackH_ok(v) == v >= 0 /\ v <= 65535
PackH(v) == << v \div 256, v % 256 >>

\* struct.pack('B', v): one byte; struct.error outside 0..255
PackB_ok(v) == v >= 0 /\ v <= 255

\* The byte literals of RFIDProtocol.write_tag as the source spells them:
\* b'\\xEF' is the four characters backslash, x, E, F.
FH == << 92, 120, 69, 70 >>
CMDC == << 92, 120, 49, 50 >>
EOF == << 92, 120, 70, 69 >>
ACK_LEN == << 92, 120, 48, 55 >>

\* ------------------------------------------------- tag record codec ----

\* RFIDProtocol._tag_data_to_bytes: whether every struct.pack succeeds
tag_data_to_bytes_ok(tag_data) ==
    /\ PackH_ok(Get(tag_data, "tag_version", 0))
    /\ PackH_ok(Get(tag_data, "diameter_target", 0))
    /\ PackH_ok(Get(tag_data, "weight_nominal", 0))
    /\ PackH_ok(Get(tag_data, "print_temp", 0))
    /\ PackH_ok(Get(tag_data, "bed_temp", 0))
    /\ PackH_ok(Get(tag_data, "density", 0))

\* a variant of _tag_data_to_bytes without the [:16] and [:32] slices: a
\* string longer than its field pushes the following fields back
tag_data_to_bytes_NoTruncate(tag_data) ==
    LET buffer ==
            PackH(Get(tag_data, "tag_version", 0))
         \o Ljust(AsciiIgnore(Get(tag_data, "filament_manufacturer", <<>>)), 16)
         \o Ljust(AsciiIgnore(Get(tag_data, "material_name", <<>>)), 16)
         \o Ljust(AsciiIgnore(Get(tag_data, "color_name", <<>>)), 32)
         \o PackH(Get(tag_data, "diameter_target", 0))
         \o PackH(Get(tag_data, "weight_nominal", 0))
         \o PackH(Get(tag_data, "print_temp", 0))
         \o PackH(Get(tag_data, "bed_temp", 0))
         \o PackH(Get(tag_data, "density", 0))
        padded == IF Len(buffer) < 112
                  THEN buffer \o Zeros(112 - Len(buffer)) ELSE buffer
    IN  Slice(padded, 0, 112)

\* RFIDProtocol._tag_data_to_bytes: the 112-byte buffer
tag_data_to_bytes(tag_data) ==
    LET buffer ==
            PackH(Get(tag_data, "tag_version", 0))
         \o Ljust(Slice(AsciiIgnore(Get(tag_data, "filament_manufacturer", <<>>)), 0, 16), 16)
         \o Ljust(Slice(AsciiIgnore(Get(tag_data, "material_name", <<>>)), 0, 16), 16)
         \o Ljust(Slice(AsciiIgnore(Get(tag_data, "color_name", <<>>)), 0, 32), 32)
         \o PackH(Get(tag_data, "diameter_target", 0))
         \o PackH(Get(tag_data, "weight_nominal", 0))
         \o PackH(Get(tag_data, "print_temp", 0))
         \o PackH(Get(tag_data, "bed_temp", 0))
         \o PackH(Get(tag_data, "density", 0))
        padded == IF Len(buffer) < 112
                  THEN buffer \o Zeros(112 - Len(buffer)) ELSE buffer
    IN  Slice(padded, 0, 112)

\* the code points str.strip() removes, among those below 128
WHITESPACE == { 9, 10, 11, 12, 13, 28, 29, 30, 31, 32 }

\* a variant of Strip that removes nothing
Strip_Nothing(s, chars) == s

\* s.strip(chars): s without its leading and trailing members of chars
Strip(s, chars) ==
    LET keep == { i \in 1..Len(s) : s[i] \notin chars }
    IN  IF keep = {} THEN <<>>
        ELSE LET lo == CHOOSE i \in keep : \A j \in keep : i <= j
                 hi == CHOOSE i \in keep : \A j \in keep : i >= j
             IN  SubSeq(s, lo, hi)

\* a variant of IntFromBytes that reads the low byte first
IntFromBytes_LittleEndian(bs) == bs[1] + 256 * bs[2]

\* int.from_bytes(bs, 'big') of two bytes
IntFromBytes(bs) == 256 * bs[1] + bs[2]

\* RFIDReaderThread._parse_raw_tag_data.  value is the dictionary
\* returned: None stands for the empty dictionary {} of lines 133-135.
\* bytes.decode('ascii', errors='ignore') drops the bytes above 127, as
\* AsciiIgnore does.
parse_raw_tag_data(raw_data) ==
    IF raw_data = <<>> \/ Len(raw_data) < 76
    THEN None
    ELSE
      LET text(lo, hi) ==
              Strip(Strip(AsciiIgnore(Slice(raw_data, lo, hi)), { 0 }),
                    WHITESPACE)
          number(lo, hi) == IntFromBytes(Slice(raw_data, lo, hi))
      IN  Some([tag_version |-> number(0, 2),
                filament_manufacturer |-> text(2, 18),
                material_name |-> text(18, 34),
                color_name |-> text(34, 66),
                diameter_target |-> number(66, 68),
                weight_nominal |-> number(68, 70),
                print_temp |-> number(70, 72),
                bed_temp |-> number(72, 74),
                density |-> number(74, 76)])

\* ---------------------------------------------- RFIDProtocol.write_tag ----

\* RFIDProtocol.write_tag, the try block up to command_to_send.
\* status "ok": the frame was built; "exception": an exception was raised
\* and caught by the handlers of write_tag (which return False); "raise":
\* the handler itself fails on channel + 1 and the exception escapes.
write_tag_command(tag_data, channel) ==
    IF tag_data = None
    THEN [status |-> IF channel = None THEN "raise" ELSE "exception",
          frame |-> <<>>]
    ELSE IF ~tag_data_to_bytes_ok(tag_data[1])
    THEN [status |-> IF channel = None THEN "raise" ELSE "exception",
          frame |-> <<>>]
    ELSE IF channel = None
    THEN [status |-> "raise", frame |-> <<>>]
    ELSE IF ~PackB_ok(channel[1])
    THEN [status |-> "exception", frame |-> <<>>]
    ELSE
      LET data_to_write_bytes == tag_data_to_bytes(tag_data[1])
          LEN_VAL == 6 + Len(data_to_write_bytes)
          temp_frame_part ==
              FH \o << LEN_VAL >> \o CMDC \o << channel[1] >>
                 \o data_to_write_bytes
          BCC == ComplementByte(XorAll(temp_frame_part))
      IN  [status |-> "ok", frame |-> temp_frame_part \o << BCC >> \o EOF]

\* a variant of write_tag_response that looks at STA as soon as seven
\* bytes have arrived, without comparing FH, LEN, CMDC, EOF and BCC
write_tag_response_StaFirst(response_bytes) ==
    IF Len(response_bytes) = 7
    THEN CASE response_bytes[4] = 0 -> "success"
           [] response_bytes[4] = 1 -> "auth_failure"
           [] response_bytes[4] = 2 -> "no_tag"
           [] OTHER -> "unknown_status"
    ELSE "format_error"

\* RFIDProtocol.write_tag, the parsing of the response read after the wait
write_tag_response(response_bytes) ==
    IF /\ Len(response_bytes) = 7
       /\ Slice(response_bytes, 0, 1) = FH
       /\ Slice(response_bytes, 1, 2) = ACK_LEN
       /\ Slice(response_bytes, 2, 3) = CMDC
       /\ Slice(response_bytes, 6, 7) = EOF
    THEN
      LET resp_sta == response_bytes[4]
          resp_bcc_received == response_bytes[6]
          calculated_bcc_byte ==
              ComplementByte(XorAll(Slice(response_bytes, 0, 5)))
      IN  IF calculated_bcc_byte = resp_bcc_received
          THEN CASE resp_sta = 0 -> "success"
                 [] resp_sta = 1 -> "auth_failure"
                 [] resp_sta = 2 -> "no_tag"
                 [] OTHER -> "unknown_status"
          ELSE "bcc_error"
    ELSE "format_error"

\* the calls a transaction makes on serial_port, in the order of the
\* code: rfid_protocol.py 56-57 and 150-151, 60 and 153, 66 and 157,
\* 68 and 159, 69 and 160
OpsClear == << "reset_input_buffer", "reset_output_buffer" >>
\* a variant of OpsWrite in which the transaction goes on to wait and
\* read after the write, whatever write returned
OpsWrite_ThenReads ==
    OpsClear \o << "write", "sleep", "in_waiting", "read" >>

OpsWrite == OpsClear \o << "write" >>
\* a variant of OpsWait that polls the port a second time when nothing
\* has arrived
OpsWait_PollsAgain ==
    OpsWrite \o << "sleep", "in_waiting", "sleep", "in_waiting" >>

OpsWait == OpsWrite \o << "sleep", "in_waiting" >>
OpsRead == OpsWait \o << "in_waiting", "read" >>

\* RFIDProtocol.write_tag as one call.  is_open: serial_port.is_open;
\* full_write: serial_port.write returned len(command_to_send);
\* response_bytes: what the device has put in the input buffer after the
\* settle delay (<<>>: in_waiting = 0); port_error: the call of
\* serial_port that raises SerialException ("none", "write" or "read").
\* sent is the frame handed to serial_port.write, ops the calls made on
\* serial_port.
write_tag(is_open, tag_data, channel, full_write, response_bytes, port_error) ==
    IF ~is_open
    THEN [sent |-> <<>>, result |-> "not_connected", ops |-> <<>>]
    ELSE
      LET cmd == write_tag_command(tag_data, channel)
      IN  IF cmd.status # "ok"
          THEN [sent |-> <<>>, result |-> cmd.status, ops |-> <<>>]
          ELSE IF port_error = "write"
          THEN [sent |-> cmd.frame, result |-> "serial_error",
                ops |-> OpsWrite]
          ELSE IF ~full_write
          THEN [sent |-> cmd.frame, result |-> "short_write",
                ops |-> OpsWrite]
          ELSE IF response_bytes = <<>>
          THEN [sent |-> cmd.frame, result |-> "timeout", ops |-> OpsWait]
          ELSE IF port_error = "read"
          THEN [sent |-> cmd.frame, result |-> "serial_error",
                ops |-> OpsRead]
          ELSE [sent |-> cmd.frame,
                result |-> write_tag_response(response_bytes),
                ops |-> OpsRead]

\* ------------------------------------------------- read_rfid_tag.py ----

\* a variant of the table keyed by the channel number 1..8 shown in
\* the form instead of the channel data byte
PREDEFINED_READ_COMMANDS_OneBased ==
    [c \in 1..8 |-> << 239, 6, 17, c - 1, 8 - c, 254 >>]

\* PREDEFINED_READ_COMMANDS
PREDEFINED_READ_COMMANDS ==
    [c \in 0..7 |-> << 239, 6, 17, c, 7 - c, 254 >>]

\* construct_read_command: "raise" when the channel is None (the format
\* of the error message fails), None when it is not a key of the table.
construct_read_command(channel_data_byte) ==
    IF channel_data_byte = None
    THEN [status |-> "raise", frame |-> None]
    ELSE IF channel_data_byte[1] \notin DOMAIN PREDEFINED_READ_COMMANDS
    THEN [status |-> "ok", frame |-> None]
    ELSE [status |-> "ok",
          frame |-> Some(PREDEFINED_READ_COMMANDS[channel_data_byte[1]])]

\* The fill argument of construct_write_command as the source spells it:
\* b'\\x00' is the four characters backslash, x, 0, 0.
WRITE_FILL == << 92, 120, 48, 48 >>

\* bs.ljust(n, fill): TypeError unless fill is one byte
LjustFill_ok(fill) == Len(fill) = 1
LjustFill(bs, n, fill) ==
    IF Len(bs) >= n THEN bs ELSE bs \o [i \in 1..(n - Len(bs)) |-> fill[1]]

\* fill * n
Repeat(fill, n) ==
    [i \in 1..(n * Len(fill)) |-> fill[((i - 1) % Len(fill)) + 1]]

\* construct_write_command.  "raise": the debug print of line 154 fails
\* on channel None, or bytes([channel]) of line 225 fails outside 0..255;
\* frame None: the payload could not be prepared (lines 212-222).
construct_write_command(tag_data, channel_data_byte) ==
    IF channel_data_byte = None
    THEN [status |-> "raise", frame |-> None]
    ELSE IF ~(/\ tag_data_to_bytes_ok(tag_data)
              /\ LjustFill_ok(WRITE_FILL))
    THEN [status |-> "ok", frame |-> None]
    ELSE
      LET fields_bytes ==
                PackH(Get(tag_data, "tag_version", 0))
             \o Slice(LjustFill(AsciiIgnore(Get(tag_data, "filament_manufacturer", <<>>)),
                                16, WRITE_FILL), 0, 16)
             \o Slice(LjustFill(AsciiIgnore(Get(tag_data, "material_name", <<>>)),
                                16, WRITE_FILL), 0, 16)
             \o Slice(LjustFill(AsciiIgnore(Get(tag_data, "color_name", <<>>)),
                                32, WRITE_FILL), 0, 32)
             \o PackH(Get(tag_data, "diameter_target", 0))
             \o PackH(Get(tag_data, "weight_nominal", 0))
             \o PackH(Get(tag_data, "print_temp", 0))
             \o PackH(Get(tag_data, "bed_temp", 0))
             \o PackH(Get(tag_data, "density", 0))
          remaining_bytes_to_fill == 112 - Len(fields_bytes)
          payload_bytes ==
              IF remaining_bytes_to_fill > 0
              THEN fields_bytes \o Repeat(WRITE_FILL, remaining_bytes_to_fill)
              ELSE fields_bytes
      IN  IF remaining_bytes_to_fill < 0 \/ Len(payload_bytes) # 112
          THEN [status |-> "ok", frame |-> None]
          ELSE IF ~PackB_ok(channel_data_byte[1])
          THEN [status |-> "raise", frame |-> None]
          ELSE
            LET data_field == << channel_data_byte[1] >> \o payload_bytes
                frame_len == 5 + Len(data_field)
                bcc_calculation_part == << 239, frame_len, 18 >> \o data_field
                bcc_value == ComplementByte(XorAll(bcc_calculation_part))
            IN  [status |-> "ok",
                 frame |-> Some(bcc_calculation_part
                                  \o << bcc_value, 254 >>)]

\* parse_rfid_response, lines 75-115: the branches on STA, taken once
\* the length, FH and EOF have been accepted
parse_rfid_status(response_bytes) ==
    LET len_val == response_bytes[2]
        sta == response_bytes[4]
    IN  IF sta = 0
        THEN LET tag_data_start_index == 5
                 tag_data_end_index == len_val - 2
             IN  IF tag_data_start_index >= tag_data_end_index
                 THEN [value |-> Some(<<>>), log |-> "no_content"]
                 ELSE [value |-> Some(Slice(response_bytes,
                                            tag_data_start_index,
                                            tag_data_end_index)),
                       log |-> "success"]
        ELSE IF sta = 1 THEN [value |-> None, log |-> "sta_01"]
        ELSE IF sta = 2 THEN [value |-> None, log |-> "sta_02"]
        ELSE [value |-> None, log |-> "sta_unknown"]

\* a variant of parse_rfid_response without the check of EOF
parse_rfid_response_NoEofCheck(response_bytes) ==
    IF response_bytes = <<>>
    THEN [value |-> None, log |-> "empty"]
    ELSE IF Len(response_bytes) < 7
    THEN [value |-> None, log |-> "short"]
    ELSE IF response_bytes[1] # 239
    THEN [value |-> None, log |-> "bad_fh"]
    ELSE parse_rfid_status(response_bytes)

\* a variant of parse_rfid_response that gives up when LEN is not the
\* number of bytes received (the return None of line 66)
parse_rfid_response_StrictLen(response_bytes) ==
    IF response_bytes = <<>>
    THEN [value |-> None, log |-> "empty"]
    ELSE IF Len(response_bytes) < 7
    THEN [value |-> None, log |-> "short"]
    ELSE IF response_bytes[1] # 239
    THEN [value |-> None, log |-> "bad_fh"]
    ELSE IF response_bytes[Len(response_bytes)] # 254
    THEN [value |-> None, log |-> "bad_eof"]
    ELSE IF Len(response_bytes) # response_bytes[2]
    THEN [value |-> None, log |-> "len_mismatch"]
    ELSE parse_rfid_status(response_bytes)

\* parse_rfid_response: value is what it returns, None or Some(tag
\* content); log names the message printed on the branch taken.
parse_rfid_response(response_bytes) ==
    IF response_bytes = <<>>
    THEN [value |-> None, log |-> "empty"]
    ELSE IF Len(response_bytes) < 7
    THEN [value |-> None, log |-> "short"]
    ELSE
      LET fh == response_bytes[1]
          eof == response_bytes[Len(response_bytes)]
      IN  IF fh # 239 THEN [value |-> None, log |-> "bad_fh"]
          ELSE IF eof # 254 THEN [value |-> None, log |-> "bad_eof"]
          ELSE parse_rfid_status(response_bytes)

\* RFIDProtocol.read_tag as one call, with the parameters of write_tag.
\* result "ok" is (True, response_bytes); "raise" is the exception of
\* construct_read_command(None), which line 51 does not catch.
read_tag(is_open, channel, full_write, response_bytes, port_error) ==
    IF ~is_open
    THEN [sent |-> <<>>, result |-> "not_connected", bytes |-> <<>>,
          ops |-> <<>>]
    ELSE
      LET command_to_send == construct_read_command(channel)
      IN  IF command_to_send.status = "raise"
          THEN [sent |-> <<>>, result |-> "raise", bytes |-> <<>>,
                ops |-> <<>>]
          ELSE IF command_to_send.frame = None
          THEN [sent |-> <<>>, result |-> "invalid_channel",
                bytes |-> <<>>, ops |-> <<>>]
          ELSE IF port_error = "write"
          THEN [sent |-> command_to_send.frame[1],
                result |-> "serial_error", bytes |-> <<>>,
                ops |-> OpsWrite]
          ELSE IF ~full_write
          THEN [sent |-> command_to_send.frame[1],
                result |-> "short_write", bytes |-> <<>>, ops |-> OpsWrite]
          ELSE IF response_bytes = <<>>
          THEN [sent |-> command_to_send.frame[1], result |-> "timeout",
                bytes |-> <<>>, ops |-> OpsWait]
          ELSE IF port_error = "read"
          THEN [sent |-> command_to_send.frame[1],
                result |-> "serial_error", bytes |-> <<>>, ops |-> OpsRead]
          ELSE [sent |-> command_to_send.frame[1], result |-> "ok",
                bytes |-> response_bytes, ops |-> OpsRead]

\* RFIDProtocol.read_tag, the part after the frame was written and the
\* settle delay has passed: (True, bytes) or (False, message)
read_tag_response(response_bytes) ==
    IF response_bytes # <<>>
    THEN [success |-> TRUE, bytes |-> response_bytes]
    ELSE [success |-> FALSE, bytes |-> <<>>]

\* ------------------------------------------- main.py, _execute_*_once ----

\* a variant of read_content in which the read succeeds only when the
\* payload was decoded into a record
read_content_NeedsRecord(tag_content_bytes) ==
    LET parsed_data_dict == IF tag_content_bytes = None THEN None
                            ELSE parse_raw_tag_data(tag_content_bytes[1])
    IN  IF parsed_data_dict # None
        THEN [returned |-> TRUE, data_received |-> << parsed_data_dict[1] >>,
              log |-> "parsed"]
        ELSE [returned |-> FALSE, data_received |-> <<>>,
              log |-> "parse_failed"]

\* _execute_read_tag_once, main.py 204-218: what is made of the value of
\* parse_rfid_response.  data_received: the records emitted as data
\* events; log: which message of lines 209-218 is logged.
read_content(tag_content_bytes) ==
    IF tag_content_bytes = None
    THEN [returned |-> FALSE, data_received |-> <<>>, log |-> "parse_failed"]
    ELSE IF tag_content_bytes[1] = <<>>
    THEN [returned |-> TRUE, data_received |-> <<>>, log |-> "empty_content"]
    ELSE
      LET parsed_data_dict == parse_raw_tag_data(tag_content_bytes[1])
      IN  IF parsed_data_dict # None
          THEN [returned |-> TRUE,
                data_received |-> << parsed_data_dict[1] >>,
                log |-> "parsed"]
          ELSE [returned |-> TRUE, data_received |-> <<>>,
                log |-> "not_a_record"]

\* _execute_read_tag_once as one call, with the parameters of read_tag.
\* status "raise": the exception of construct_read_command(None) at line
\* 183, outside the try; command_logged: the frame logged at line 185
\* as about to be sent; sent: the frame read_tag wrote to the port;
\* returned: the boolean returned.
execute_read_tag_once(is_open, channel, full_write, response_bytes, port_error) ==
    LET command_to_send == construct_read_command(channel)
    IN  IF command_to_send.status = "raise"
        THEN [status |-> "raise", returned |-> FALSE,
              command_logged |-> None, sent |-> <<>>,
              data_received |-> <<>>, log |-> "raise"]
        ELSE IF command_to_send.frame = None
        THEN [status |-> "ok", returned |-> FALSE,
              command_logged |-> None, sent |-> <<>>,
              data_received |-> <<>>, log |-> "invalid_channel"]
        ELSE
          LET r == read_tag(is_open, channel, full_write, response_bytes,
                            port_error)
              c == read_content(parse_rfid_response(r.bytes).value)
          IN  IF r.result # "ok"
              THEN [status |-> "ok", returned |-> FALSE,
                    command_logged |-> command_to_send.frame,
                    sent |-> r.sent, data_received |-> <<>>,
                    log |-> r.result]
              ELSE [status |-> "ok", returned |-> c.returned,
                    command_logged |-> command_to_send.frame,
                    sent |-> r.sent, data_received |-> c.data_received,
                    log |-> c.log]

\* _execute_write_tag_once, main.py 249-271, given the value of
\* construct_write_command and the result of RFIDProtocol.write_tag
execute_write_result(command_to_send, r) ==
    [status |-> "ok", returned |-> r.result = "success",
     command_logged |-> IF command_to_send.status = "ok"
                        THEN command_to_send.frame ELSE None,
     sent |-> r.sent, log |-> r.result]

\* _execute_write_tag_once as one call, with the parameters of
\* write_tag.  command_logged: the frame construct_write_command
\* returned, logged at line 251 as about to be sent (None: line 254 logs
\* that no command could be built and that the write is tried all the
\* same); status "raise": with channel None the handler of line 256
\* fails on channel + 1.
execute_write_tag_once(is_open, data, channel, full_write, response_bytes, port_error) ==
    IF channel = None
    THEN [status |-> "raise", returned |-> FALSE,
          command_logged |-> None, sent |-> <<>>, log |-> "raise"]
    ELSE execute_write_result(
             construct_write_command(data[1], channel),
             write_tag(is_open, data, channel, full_write, response_bytes,
                       port_error))

\* ------------------------------------------------------- the inputs ----

\* "MINGDA 3D", "PLA", "White", "eSUN", "PETG", "Black" as code points
TagData(v, manu, mat, col, d, w, pt, bt, dens) ==
    [tag_version |-> v, filament_manufacturer |-> manu,
     material_name |-> mat, color_name |-> col, diameter_target |-> d,
     weight_nominal |-> w, print_temp |-> pt, bed_temp |-> bt,
     density |-> dens]

RecPLA ==
    TagData(1000, << 77, 73, 78, 71, 68, 65, 32, 51, 68 >>, << 80, 76, 65 >>,
            << 87, 104, 105, 116, 101 >>, 1750, 1000, 210, 60, 1240)

RecPETG ==
    TagData(1000, << 101, 83, 85, 78 >>, << 80, 69, 84, 71 >>,
            << 66, 108, 97, 99, 107 >>, 1750, 500, 240, 80, 1270)

\* the records the caller passes to the thread
Records == { RecPLA, RecPETG }

\* the channels the caller selects (channel_combo.currentIndex())
Channels == { 2, 5 }

\* a well-formed 7-byte frame  EF 07 cmdc sta ch BCC FE  of the device
StatusFrame(cmdc, sta, c) ==
    LET head == << 239, 7, cmdc, sta, c >>
    IN  head \o << ComplementByte(XorAll(head)), 254 >>

\* a read success frame  EF LEN 11 00 ch payload BCC FE  of the device
ReadSuccessFrame(c, payload) ==
    LET head == << 239, 7 + Len(payload), 17, 0, c >> \o payload
    IN  head \o << ComplementByte(XorAll(head)), 254 >>

\* what the device may have put in the input buffer when a read
\* transaction polls it (<<>>: nothing, in_waiting = 0)
ReadResponses ==
    { <<>>, StatusFrame(17, 2, 5), StatusFrame(17, 1, 5),
      ReadSuccessFrame(5, tag_data_to_bytes(RecPLA)) }

\* the same for a write transaction
WriteResponses ==
    { <<>>, StatusFrame(18, 0, 2), StatusFrame(18, 2, 2) }

\* ------------------------------------------------------- the state ----

W == "worker"
C == "caller"
Threads == { W, C }

VARIABLES
    \* RFIDReaderThread fields (main.py 57-68)
    is_running,
    is_performing_continuous_action,
    continuous_mode,
    continuous_action_channel,
    continuous_action_data,
    \* serial_port is set and serial_port.is_open
    port_open,
    \* per thread: position in the code, the channel and data arguments of
    \* the _execute_*_once call in progress, and where
    \* stop_continuous_action returns to
    pc, ch, data, ret,
    \* how the worker's tick that has just ended came out (until the
    \* sleep after it is over)
    outcome,
    \* the caller's current (or last) call, the continuous state a start
    \* call found when it began, the status events the call has emitted
    \* and the log messages its stop_continuous_action has emitted
    call, call_pre, call_events, call_logs,
    \* frames the worker loop has written since a stop_continuous_action
    \* of the caller last returned; -1 once a start call has been issued
    \* after it (or before any stop)
    worker_sends,
    \* consecutive read ticks of the worker that ended in a device status
    \* error, all begun and ended with the caller issuing nothing; -1 while
    \* the tick in progress overlaps a call of the caller
    streak,
    \* the last application of a protocol function (specification Protocol)
    io,
    \* the record the widgets of the tag form hold at the moment
    form

fields == << is_running, is_performing_continuous_action, continuous_mode,
             continuous_action_channel, continuous_action_data, port_open >>
locals == << pc, ch, data, ret, outcome >>
observed == << call, call_pre, call_events, call_logs, worker_sends, streak >>
vars == << fields, locals, observed, io, form >>

\* the continuous action state as the fields spell it
continuous == << is_performing_continuous_action, continuous_mode,
                 continuous_action_channel, continuous_action_data >>

NoCall == [op |-> "none", channel |-> None, data |-> None]
NoIo == [fn |-> "none"]
NoPre == << FALSE, "None", None >>

\* RFIDReaderThread.__init__
InitThread ==
    /\ is_running = FALSE
    /\ is_performing_continuous_action = FALSE
    /\ continuous_mode = "None"
    /\ continuous_action_channel = None
    /\ continuous_action_data = None
    /\ port_open = FALSE
    /\ pc = [t \in Threads |-> IF t = W THEN "finished" ELSE "idle"]
    /\ ch = [t \in Threads |-> None]
    /\ data = [t \in Threads |-> None]
    /\ ret = [t \in Threads |-> "idle"]
    /\ outcome = "none"
    /\ call = NoCall
    /\ call_pre = NoPre
    /\ call_events = <<>>
    /\ call_logs = 0
    /\ worker_sends = -1
    /\ streak = -1
    /\ form = RecPLA

Init == InitThread /\ io = NoIo

\* ------------------------------------------------------ the bounds ----

\* streak and worker_sends stop counting here
MaxStreak == 3
MaxSends == 2

Inc(n, cap) == IF n < cap THEN n + 1 ELSE n

\* ------------------------------------- code run by either thread ----

TransportFailures == { "not_connected", "serial_error", "short_write", "timeout" }
StatusErrors == { "sta_01", "sta_02", "sta_unknown" }

\* where _execute_*_once returns to: the worker's time.sleep(
\* CONTINUOUS_INTERVAL) in run, or the end of the caller's call
Return(t) == IF t = W THEN "tick_sleep" ELSE "idle"

\* where an exception that escapes _execute_*_once lands: the except
\* branch of run, or (caller) the end of the call
Raise(t) == IF t = W THEN "run_except" ELSE "idle"

Goto(t, p) == pc' = [pc EXCEPT ![t] = p]

StartCalls == { "start_continuous_read", "start_continuous_write" }

\* a frame is written to the transport by thread t
CountSend(t) ==
    worker_sends' = IF t = W /\ worker_sends >= 0
                    THEN Inc(worker_sends, MaxSends) ELSE worker_sends

\* stop_continuous_action returns to thread t
CountStopReturn(t) ==
    worker_sends' = IF t = C /\ call.op \notin StartCalls THEN 0
                    ELSE worker_sends

\* the tick of thread t ends without an outcome (an exception escapes)
BreakStreak(t) ==
    streak' = IF t = W /\ streak >= 0 THEN 0 ELSE streak

\* a variant of Finish in which a device status error escapes the tick
\* as an exception, so that run's except branch stops the loop
Finish_StatusErrorRaises(t, o, is_read) ==
    /\ Goto(t, IF o \in StatusErrors THEN Raise(t) ELSE Return(t))
    /\ outcome' = IF t = W THEN o ELSE outcome
    /\ streak' = IF t # W \/ streak < 0 THEN streak
                 ELSE IF is_read /\ o \in StatusErrors
                 THEN Inc(streak, MaxStreak) ELSE 0

\* the end of _execute_read_tag_once / _execute_write_tag_once with
\* outcome o, which is logged
Finish(t, o, is_read) ==
    /\ Goto(t, Return(t))
    /\ outcome' = IF t = W THEN o ELSE outcome
    /\ streak' = IF t # W \/ streak < 0 THEN streak
                 ELSE IF is_read /\ o \in StatusErrors
                 THEN Inc(streak, MaxStreak) ELSE 0

\* _execute_read_tag_once, main.py 183-188: construct and log the command
ExecRead(t) ==
    /\ pc[t] = "exec_read"
    /\ LET cmd == construct_read_command(ch[t])
       IN  IF cmd.status = "raise"
           THEN /\ Goto(t, Raise(t))
                /\ BreakStreak(t)
                /\ UNCHANGED outcome
           ELSE IF cmd.frame = None
           THEN Finish(t, "invalid_channel", TRUE)
           ELSE /\ Goto(t, "read_tag_open")
                /\ UNCHANGED << outcome, streak >>
    /\ UNCHANGED << fields, ch, data, ret, call, call_pre, call_events,
                    call_logs, worker_sends, io, form >>

\* RFIDProtocol.read_tag, rfid_protocol.py 48-53
ReadTagOpen(t) ==
    /\ pc[t] = "read_tag_open"
    /\ IF ~port_open
       THEN Finish(t, "not_connected", TRUE)
       ELSE /\ Goto(t, "read_tag_send")
            /\ UNCHANGED << outcome, streak >>
    /\ UNCHANGED << fields, ch, data, ret, call, call_pre, call_events,
                    call_logs, worker_sends, io, form >>

\* RFIDProtocol.read_tag, rfid_protocol.py 55-62: clear the buffers and
\* write the frame; a closed port raises SerialException
ReadTagSend(t) ==
    /\ pc[t] = "read_tag_send"
    /\ IF ~port_open
       THEN Finish(t, "serial_error", TRUE) /\ UNCHANGED worker_sends
       ELSE \E full_write \in BOOLEAN :
              /\ CountSend(t)
              /\ IF full_write
                 THEN /\ Goto(t, "read_tag_recv")
                      /\ UNCHANGED << outcome, streak >>
                 ELSE Finish(t, "short_write", TRUE)
    /\ UNCHANGED << fields, ch, data, ret, call, call_pre, call_events,
                    call_logs, io, form >>

\* what _execute_read_tag_once makes of the bytes read_tag returned,
\* main.py 196-226
read_outcome(response_bytes) ==
    LET r == read_tag_response(response_bytes)
    IN  IF ~r.success THEN "timeout"
        ELSE LET tag_content_bytes == parse_rfid_response(r.bytes)
             IN  IF tag_content_bytes.value # None THEN "read_ok"
                 ELSE tag_content_bytes.log

\* RFIDProtocol.read_tag, rfid_protocol.py 66-73, after time.sleep(0.3),
\* and the rest of _execute_read_tag_once
ReadTagRecv(t) ==
    /\ pc[t] = "read_tag_recv"
    /\ IF ~port_open
       THEN Finish(t, "serial_error", TRUE)
       ELSE \E response_bytes \in ReadResponses :
              Finish(t, read_outcome(response_bytes), TRUE)
    /\ UNCHANGED << fields, ch, data, ret, call, call_pre, call_events,
                    call_logs, worker_sends, io, form >>

\* _execute_write_tag_once, main.py 247-257: construct_write_command is
\* called to log the frame; with channel None its message fails inside
\* the try and the handler's own message fails on channel + 1
ExecWrite(t) ==
    /\ pc[t] = "exec_write"
    /\ IF ch[t] = None
       THEN Goto(t, Raise(t)) /\ BreakStreak(t)
       ELSE Goto(t, "write_tag_open") /\ UNCHANGED streak
    /\ UNCHANGED << fields, ch, data, ret, outcome, call, call_pre,
                    call_events, call_logs, worker_sends, io, form >>

\* RFIDProtocol.write_tag, rfid_protocol.py 128-129
WriteTagOpen(t) ==
    /\ pc[t] = "write_tag_open"
    /\ IF ~port_open
       THEN Finish(t, "not_connected", FALSE)
       ELSE /\ Goto(t, "write_tag_send")
            /\ UNCHANGED << outcome, streak >>
    /\ UNCHANGED << fields, ch, data, ret, call, call_pre, call_events,
                    call_logs, worker_sends, io, form >>

\* RFIDProtocol.write_tag, rfid_protocol.py 131-155
WriteTagSend(t) ==
    /\ pc[t] = "write_tag_send"
    /\ LET cmd == write_tag_command(data[t], ch[t])
       IN  IF cmd.status = "raise"
           THEN /\ Goto(t, Raise(t))
                /\ BreakStreak(t)
                /\ UNCHANGED << outcome, worker_sends >>
           ELSE IF cmd.status = "exception"
           THEN Finish(t, "exception", FALSE) /\ UNCHANGED worker_sends
           ELSE IF ~port_open
           THEN Finish(t, "serial_error", FALSE) /\ UNCHANGED worker_sends
           ELSE \E full_write \in BOOLEAN :
                  /\ CountSend(t)
                  /\ IF full_write
                     THEN /\ Goto(t, "write_tag_recv")
                          /\ UNCHANGED << outcome, streak >>
                     ELSE Finish(t, "short_write", FALSE)
    /\ UNCHANGED << fields, ch, data, ret, call, call_pre, call_events,
                    call_logs, io, form >>

\* RFIDProtocol.write_tag, rfid_protocol.py 157-194
WriteTagRecv(t) ==
    /\ pc[t] = "write_tag_recv"
    /\ IF ~port_open
       THEN Finish(t, "serial_error", FALSE)
       ELSE \E response_bytes \in WriteResponses :
              Finish(t, IF response_bytes = <<>> THEN "timeout"
                        ELSE write_tag_response(response_bytes), FALSE)
    /\ UNCHANGED << fields, ch, data, ret, call, call_pre, call_events,
                    call_logs, worker_sends, io, form >>

\* ----------------- RFIDReaderThread.stop_continuous_action, main.py 313-322

\* a variant of StopCheck that returns at once whatever the flag says,
\* so that a stop cancels nothing
StopCheck_CancelsNothing(t) ==
    /\ pc[t] = "stop_check"
    /\ Goto(t, ret[t])
    /\ CountStopReturn(t)
    /\ UNCHANGED << fields, ch, data, ret, outcome, call, call_pre,
                    call_events, call_logs, streak, io, form >>

\* if self.is_performing_continuous_action: ... log_message.emit(...)
StopCheck(t) ==
    /\ pc[t] = "stop_check"
    /\ IF is_performing_continuous_action
       THEN /\ Goto(t, "stop_flag")
            /\ call_logs' = IF t = C THEN call_logs + 1 ELSE call_logs
            /\ UNCHANGED << call, worker_sends >>
       ELSE /\ Goto(t, ret[t])
            /\ CountStopReturn(t)
            /\ UNCHANGED << call, call_logs >>
    /\ UNCHANGED << fields, ch, data, ret, outcome, call_pre, call_events,
                    streak, io, form >>

\* self.is_performing_continuous_action = False
StopFlag(t) ==
    /\ pc[t] = "stop_flag"
    /\ is_performing_continuous_action' = FALSE
    /\ Goto(t, "stop_mode")
    /\ UNCHANGED << is_running, continuous_mode, continuous_action_channel,
                    continuous_action_data, port_open, ch, data, ret,
                    outcome, observed, io, form >>

\* self.continuous_mode = None
StopMode(t) ==
    /\ pc[t] = "stop_mode"
    /\ continuous_mode' = "None"
    /\ Goto(t, "stop_channel")
    /\ UNCHANGED << is_running, is_performing_continuous_action,
                    continuous_action_channel, continuous_action_data,
                    port_open, ch, data, ret, outcome, observed, io, form >>

\* self.continuous_action_channel = None
StopChannel(t) ==
    /\ pc[t] = "stop_channel"
    /\ continuous_action_channel' = None
    /\ Goto(t, "stop_data")
    /\ UNCHANGED << is_running, is_performing_continuous_action,
                    continuous_mode, continuous_action_data, port_open, ch,
                    data, ret, outcome, observed, io, form >>

\* a variant of StopData that leaves the record of a continuous write
\* in place
StopData_KeepsData(t) ==
    /\ pc[t] = "stop_data"
    /\ Goto(t, ret[t])
    /\ call_events' = IF t = C THEN Append(call_events, << FALSE, "" >>)
                      ELSE call_events
    /\ CountStopReturn(t)
    /\ UNCHANGED << fields, ch, data, ret, outcome, call, call_pre,
                    call_logs, streak, io, form >>

\* self.continuous_action_data = None;
\* continuous_action_status_changed.emit(False, '')
StopData(t) ==
    /\ pc[t] = "stop_data"
    /\ continuous_action_data' = None
    /\ Goto(t, ret[t])
    /\ call_events' = IF t = C THEN Append(call_events, << FALSE, "" >>)
                      ELSE call_events
    /\ CountStopReturn(t)
    /\ UNCHANGED << is_running, is_performing_continuous_action,
                    continuous_mode, continuous_action_channel, port_open,
                    ch, data, ret, outcome, call, call_pre, call_logs,
                    streak, io, form >>

\* ------------------------------- RFIDReaderThread.run, main.py 111-128

\* a variant of RunWhile that goes round whatever the running flag says
RunWhile_IgnoresFlag ==
    /\ pc[W] = "run_while"
    /\ Goto(W, "run_if_action")
    /\ UNCHANGED << fields, ch, data, ret, outcome, observed, io, form >>

\* while self.is_running:
RunWhile ==
    /\ pc[W] = "run_while"
    /\ Goto(W, IF is_running THEN "run_if_action" ELSE "finished")
    /\ UNCHANGED << fields, ch, data, ret, outcome, observed, io, form >>

\* if self.is_performing_continuous_action and ...  (else: sleep(0.1))
RunIfAction ==
    /\ pc[W] = "run_if_action"
    /\ Goto(W, IF is_performing_continuous_action THEN "run_if_port"
               ELSE "run_while")
    /\ streak' = IF pc[C] # "idle" THEN -1
                 ELSE IF ~is_performing_continuous_action \/ streak < 0
                 THEN 0 ELSE streak
    /\ UNCHANGED << fields, ch, data, ret, outcome, call, call_pre,
                    call_events, call_logs, worker_sends, io, form >>

\* ... and self.serial_port and self.serial_port.is_open:
RunIfPort ==
    /\ pc[W] = "run_if_port"
    /\ Goto(W, IF port_open THEN "run_mode_read" ELSE "run_while")
    /\ UNCHANGED << fields, ch, data, ret, outcome, observed, io, form >>

\* if self.continuous_mode == 'read': about_to_read_in_loop.emit()
RunModeRead ==
    /\ pc[W] = "run_mode_read"
    /\ Goto(W, IF continuous_mode = "read" THEN "tick_read_channel"
               ELSE "run_mode_write")
    /\ UNCHANGED << fields, ch, data, ret, outcome, observed, io, form >>

\* elif self.continuous_mode == 'write':
RunModeWrite ==
    /\ pc[W] = "run_mode_write"
    /\ Goto(W, IF continuous_mode = "write" THEN "tick_write_if_data"
               ELSE "tick_sleep")
    /\ UNCHANGED << fields, ch, data, ret, outcome, observed, io, form >>

\* self._execute_read_tag_once(self.continuous_action_channel, ...)
TickReadChannel ==
    /\ pc[W] = "tick_read_channel"
    /\ ch' = [ch EXCEPT ![W] = continuous_action_channel]
    /\ Goto(W, "exec_read")
    /\ UNCHANGED << fields, data, ret, outcome, observed, io, form >>

\* if self.continuous_action_data:
TickWriteIfData ==
    /\ pc[W] = "tick_write_if_data"
    /\ Goto(W, IF Truthy(continuous_action_data) THEN "tick_write_data"
               ELSE "tick_sleep")
    /\ UNCHANGED << fields, ch, data, ret, outcome, observed, io, form >>

\* a variant of TickWriteData that takes the record from the form as it
\* is at the tick instead of the one start_continuous_write stored
TickWriteData_ReadsForm ==
    /\ pc[W] = "tick_write_data"
    /\ data' = [data EXCEPT ![W] = Some(form)]
    /\ Goto(W, "tick_write_channel")
    /\ UNCHANGED << fields, ch, ret, outcome, observed, io, form >>

\* self._execute_write_tag_once(self.continuous_action_data, ...
TickWriteData ==
    /\ pc[W] = "tick_write_data"
    /\ data' = [data EXCEPT ![W] = continuous_action_data]
    /\ Goto(W, "tick_write_channel")
    /\ UNCHANGED << fields, ch, ret, outcome, observed, io, form >>

\* ... self.continuous_action_channel, is_continuous_op=True)
TickWriteChannel ==
    /\ pc[W] = "tick_write_channel"
    /\ ch' = [ch EXCEPT ![W] = continuous_action_channel]
    /\ Goto(W, "exec_write")
    /\ UNCHANGED << fields, data, ret, outcome, observed, io, form >>

\* time.sleep(self.CONTINUOUS_INTERVAL)
TickSleep ==
    /\ pc[W] = "tick_sleep"
    /\ Goto(W, "run_while")
    /\ outcome' = "none"
    /\ ch' = [ch EXCEPT ![W] = None]
    /\ data' = [data EXCEPT ![W] = None]
    /\ UNCHANGED << fields, ret, observed, io, form >>

\* except Exception as e: log_message.emit(...);
\* self.stop_continuous_action()
RunExcept ==
    /\ pc[W] = "run_except"
    /\ Goto(W, "stop_check")
    /\ ret' = [ret EXCEPT ![W] = "run_while"]
    /\ ch' = [ch EXCEPT ![W] = None]
    /\ data' = [data EXCEPT ![W] = None]
    /\ UNCHANGED << fields, outcome, observed, io, form >>

\* ------------------------------------------- the caller (GUI thread) ----

\* the caller enters a call of the thread's interface at position p
Begin(op, c, d, p, r) ==
    /\ pc[C] = "idle"
    /\ call' = [op |-> op, channel |-> c, data |-> d]
    /\ call_pre' = IF op \in { "start_continuous_read",
                                "start_continuous_write" }
                   THEN << is_performing_continuous_action, continuous_mode,
                           continuous_action_channel >>
                   ELSE NoPre
    /\ call_events' = <<>>
    /\ call_logs' = 0
    /\ worker_sends' = IF op \in StartCalls THEN -1 ELSE worker_sends
    /\ pc' = [pc EXCEPT ![C] = p]
    /\ ret' = [ret EXCEPT ![C] = r]
    /\ ch' = [ch EXCEPT ![C] = c]
    /\ data' = [data EXCEPT ![C] = d]
    /\ streak' = -1
    /\ UNCHANGED << fields, outcome, io, form >>

\* RFIDReaderApp.toggle_connection, main.py 693-709: connect when the
\* thread is not running, disconnect when it is
CallConnect ==
    /\ ~is_running
    /\ Begin("connect_reader", None, None, "connect_open", "idle")

CallDisconnect ==
    /\ is_running
    /\ Begin("disconnect_reader", None, None, "disconnect_running", "idle")

\* connect_reader, main.py 72-83 and 97-100: serial.Serial(...) opens the
\* port or raises
ConnectOpen ==
    /\ pc[C] = "connect_open"
    /\ \E opened \in BOOLEAN :
         /\ port_open' = opened
         /\ Goto(C, IF opened THEN "connect_running" ELSE "idle")
    /\ UNCHANGED << is_running, continuous, ch, data, ret, outcome, call,
                    call_pre, call_events, call_logs, worker_sends,
                    streak, io, form >>

\* connect_reader, main.py 84-89: self.is_running = True
ConnectRunning ==
    /\ pc[C] = "connect_running"
    /\ is_running' = TRUE
    /\ Goto(C, "connect_start")
    /\ UNCHANGED << continuous, port_open, ch, data, ret, outcome,
                    observed, io, form >>

\* connect_reader, main.py 90-91: self.start() runs run() in the worker
\* unless the worker thread is still running
ConnectStart ==
    /\ pc[C] = "connect_start"
    /\ pc' = [pc EXCEPT ![C] = "idle",
                        ![W] = IF pc[W] = "finished" THEN "run_while"
                               ELSE pc[W]]
    /\ UNCHANGED << fields, ch, data, ret, outcome, observed, io, form >>

\* disconnect_reader, main.py 104-105: self.is_running = False, then
\* stop_continuous_action()
DisconnectRunning ==
    /\ pc[C] = "disconnect_running"
    /\ is_running' = FALSE
    /\ Goto(C, "stop_check")
    /\ ret' = [ret EXCEPT ![C] = "disconnect_close"]
    /\ UNCHANGED << continuous, port_open, ch, data, outcome, observed, io, form >>

\* disconnect_reader, main.py 106-109: close the port if it is open
DisconnectClose ==
    /\ pc[C] = "disconnect_close"
    /\ port_open' = FALSE
    /\ Goto(C, "idle")
    /\ UNCHANGED << is_running, continuous, ch, data, ret, outcome, call,
                    call_pre, call_events, call_logs, worker_sends,
                    streak, io, form >>

\* a call of stop_continuous_action (main.py 790, 874, 740, 745)
CallStop ==
    Begin("stop_continuous_action", None, None, "stop_check", "idle")

\* a call of start_continuous_read(channel) (main.py 794)
CallStartRead ==
    \E c \in Channels :
      Begin("start_continuous_read", Some(c), None, "start_read_open", "idle")

\* a variant of StartReadOpen that goes on without looking at the port
StartReadOpen_IgnoresPort ==
    /\ pc[C] = "start_read_open"
    /\ Goto(C, "start_read_if")
    /\ UNCHANGED << fields, ch, data, ret, outcome, call, call_pre,
                    call_events, call_logs, worker_sends, streak, io, form >>

\* start_continuous_read, main.py 284-286
StartReadOpen ==
    /\ pc[C] = "start_read_open"
    /\ IF port_open
       THEN Goto(C, "start_read_if")
       ELSE Goto(C, "idle")
    /\ UNCHANGED << fields, ch, data, ret, outcome, call, call_pre,
                    call_events, call_logs, worker_sends, streak, io, form >>

\* start_continuous_read, main.py 288: if self.is_performing_... and
StartReadIf ==
    /\ pc[C] = "start_read_if"
    /\ Goto(C, IF is_performing_continuous_action THEN "start_read_if_mode"
               ELSE "start_read_flag")
    /\ UNCHANGED << fields, ch, data, ret, outcome, observed, io, form >>

\* start_continuous_read, main.py 288-289: ... self.continuous_mode ==
\* 'write': self.stop_continuous_action()
StartReadIfMode ==
    /\ pc[C] = "start_read_if_mode"
    /\ Goto(C, IF continuous_mode = "write" THEN "stop_check"
               ELSE "start_read_flag")
    /\ ret' = [ret EXCEPT ![C] = "start_read_flag"]
    /\ UNCHANGED << fields, ch, data, outcome, observed, io, form >>

\* start_continuous_read, main.py 291
StartReadFlag ==
    /\ pc[C] = "start_read_flag"
    /\ is_performing_continuous_action' = TRUE
    /\ Goto(C, "start_read_mode")
    /\ UNCHANGED << is_running, continuous_mode, continuous_action_channel,
                    continuous_action_data, port_open, ch, data, ret,
                    outcome, observed, io, form >>

\* start_continuous_read, main.py 292
StartReadMode ==
    /\ pc[C] = "start_read_mode"
    /\ continuous_mode' = "read"
    /\ Goto(C, "start_read_channel")
    /\ UNCHANGED << is_running, is_performing_continuous_action,
                    continuous_action_channel, continuous_action_data,
                    port_open, ch, data, ret, outcome, observed, io, form >>

\* start_continuous_read, main.py 293-295
StartReadChannel ==
    /\ pc[C] = "start_read_channel"
    /\ continuous_action_channel' = call.channel
    /\ call_events' = Append(call_events, << TRUE, "read" >>)
    /\ Goto(C, "idle")
    /\ UNCHANGED << is_running, is_performing_continuous_action,
                    continuous_mode, continuous_action_data, port_open, ch,
                    data, ret, outcome, call, call_pre, call_logs,
                    worker_sends, streak, io, form >>

\* a call of start_continuous_write(data, channel) (main.py 885)
CallStartWrite ==
    \E c \in Channels, d \in Records :
      /\ d = form
      /\ Begin("start_continuous_write", Some(c), Some(d),
               "start_write_open", "idle")

\* start_continuous_write, main.py 299-301
StartWriteOpen ==
    /\ pc[C] = "start_write_open"
    /\ IF port_open
       THEN Goto(C, "start_write_if")
       ELSE Goto(C, "idle")
    /\ UNCHANGED << fields, ch, data, ret, outcome, call, call_pre,
                    call_events, call_logs, worker_sends, streak, io, form >>

\* start_continuous_write, main.py 303
StartWriteIf ==
    /\ pc[C] = "start_write_if"
    /\ Goto(C, IF is_performing_continuous_action
               THEN "start_write_if_mode" ELSE "start_write_flag")
    /\ UNCHANGED << fields, ch, data, ret, outcome, observed, io, form >>

\* start_continuous_write, main.py 303-304
StartWriteIfMode ==
    /\ pc[C] = "start_write_if_mode"
    /\ Goto(C, IF continuous_mode = "read" THEN "stop_check"
               ELSE "start_write_flag")
    /\ ret' = [ret EXCEPT ![C] = "start_write_flag"]
    /\ UNCHANGED << fields, ch, data, outcome, observed, io, form >>

\* start_continuous_write, main.py 306
StartWriteFlag ==
    /\ pc[C] = "start_write_flag"
    /\ is_performing_continuous_action' = TRUE
    /\ Goto(C, "start_write_mode")
    /\ UNCHANGED << is_running, continuous_mode, continuous_action_channel,
                    continuous_action_data, port_open, ch, data, ret,
                    outcome, observed, io, form >>

\* start_continuous_write, main.py 307
StartWriteMode ==
    /\ pc[C] = "start_write_mode"
    /\ continuous_mode' = "write"
    /\ Goto(C, "start_write_data")
    /\ UNCHANGED << is_running, is_performing_continuous_action,
                    continuous_action_channel, continuous_action_data,
                    port_open, ch, data, ret, outcome, observed, io, form >>

\* start_continuous_write, main.py 308
StartWriteData ==
    /\ pc[C] = "start_write_data"
    /\ continuous_action_data' = call.data
    /\ Goto(C, "start_write_channel")
    /\ UNCHANGED << is_running, is_performing_continuous_action,
                    continuous_mode, continuous_action_channel, port_open,
                    ch, data, ret, outcome, observed, io, form >>

\* start_continuous_write, main.py 309-311
StartWriteChannel ==
    /\ pc[C] = "start_write_channel"
    /\ continuous_action_channel' = call.channel
    /\ call_events' = Append(call_events, << TRUE, "write" >>)
    /\ Goto(C, "idle")
    /\ UNCHANGED << is_running, is_performing_continuous_action,
                    continuous_mode, continuous_action_data, port_open, ch,
                    data, ret, outcome, call, call_pre, call_logs,
                    worker_sends, streak, io, form >>

\* RFIDReaderApp.read_tag with the continuous-read box unchecked
\* (main.py 779-801): a one-shot read from the caller's thread
CallReadTag ==
    \E c \in Channels :
      Begin("read_tag", Some(c), None, "app_read_running", "idle")

\* main.py 781-784: if not self.reader_thread.is_running: return
AppReadRunning ==
    /\ pc[C] = "app_read_running"
    /\ IF is_running
       THEN Goto(C, "app_read_case1")
       ELSE Goto(C, "idle")
    /\ UNCHANGED << fields, ch, data, ret, outcome, call, call_pre,
                    call_events, call_logs, worker_sends, streak, io, form >>

\* main.py 789: if ...is_performing_continuous_action and
AppReadCase1 ==
    /\ pc[C] = "app_read_case1"
    /\ Goto(C, IF is_performing_continuous_action THEN "app_read_case1_mode"
               ELSE "app_read_case3")
    /\ UNCHANGED << fields, ch, data, ret, outcome, observed, io, form >>

\* main.py 789-790: ... continuous_mode == 'read': stop_continuous_action()
AppReadCase1Mode ==
    /\ pc[C] = "app_read_case1_mode"
    /\ Goto(C, IF continuous_mode = "read" THEN "stop_check"
               ELSE "app_read_case3")
    /\ ret' = [ret EXCEPT ![C] = "idle"]
    /\ UNCHANGED << fields, ch, data, outcome, observed, io, form >>

\* main.py 798-800: stop any continuous action before the one-shot read
AppReadCase3 ==
    /\ pc[C] = "app_read_case3"
    /\ Goto(C, IF is_performing_continuous_action THEN "stop_check"
               ELSE "read_tag")
    /\ ret' = [ret EXCEPT ![C] = "read_tag"]
    /\ UNCHANGED << fields, ch, data, outcome, observed, io, form >>

\* a variant of ReadTag that runs the one-shot read as a continuous
\* read of the channel
ReadTag_StartsAction ==
    /\ pc[C] = "read_tag"
    /\ Goto(C, IF port_open THEN "exec_read" ELSE "idle")
    /\ is_performing_continuous_action' = TRUE
    /\ continuous_mode' = "read"
    /\ continuous_action_channel' = ch[C]
    /\ UNCHANGED << is_running, continuous_action_data, port_open, ch, data,
                    ret, outcome, call, call_pre, call_events, call_logs,
                    worker_sends, streak, io, form >>

\* RFIDReaderThread.read_tag, main.py 231-238
ReadTag ==
    /\ pc[C] = "read_tag"
    /\ Goto(C, IF port_open THEN "exec_read" ELSE "idle")
    /\ UNCHANGED << fields, ch, data, ret, outcome, call, call_pre,
                    call_events, call_logs, worker_sends, streak, io, form >>

\* RFIDReaderApp.write_tag with the continuous-write box unchecked
\* (main.py 870-900): a one-shot write from the caller's thread
CallWriteTag ==
    \E c \in Channels, d \in Records :
      /\ d = form
      /\ Begin("write_tag", Some(c), Some(d), "app_write_case1", "idle")

\* main.py 873
AppWriteCase1 ==
    /\ pc[C] = "app_write_case1"
    /\ Goto(C, IF is_performing_continuous_action
               THEN "app_write_case1_mode" ELSE "app_write_case3")
    /\ UNCHANGED << fields, ch, data, ret, outcome, observed, io, form >>

\* main.py 873-874
AppWriteCase1Mode ==
    /\ pc[C] = "app_write_case1_mode"
    /\ Goto(C, IF continuous_mode = "write" THEN "stop_check"
               ELSE "app_write_case3")
    /\ ret' = [ret EXCEPT ![C] = "idle"]
    /\ UNCHANGED << fields, ch, data, outcome, observed, io, form >>

\* main.py 889-900: stop any continuous action before the one-shot write
AppWriteCase3 ==
    /\ pc[C] = "app_write_case3"
    /\ Goto(C, IF is_performing_continuous_action THEN "stop_check"
               ELSE "write_tag")
    /\ ret' = [ret EXCEPT ![C] = "write_tag"]
    /\ UNCHANGED << fields, ch, data, outcome, observed, io, form >>

\* RFIDReaderThread.write_tag, main.py 273-280
WriteTag ==
    /\ pc[C] = "write_tag"
    /\ Goto(C, IF port_open THEN "exec_write" ELSE "idle")
    /\ UNCHANGED << fields, ch, data, ret, outcome, call, call_pre,
                    call_events, call_logs, worker_sends, streak, io, form >>

\* the user edits the tag form (setup_tag_form, main.py 578-664); the
\* widgets are read only by RFIDReaderApp.write_tag, main.py 818-828
EditForm ==
    /\ pc[C] = "idle"
    /\ \E r \in Records \ { form } : form' = r
    /\ UNCHANGED << fields, locals, observed, io >>

\* ------------------------------------------------ the specification ----

Worker ==
    \/ RunWhile \/ RunIfAction \/ RunIfPort \/ RunModeRead \/ RunModeWrite
    \/ TickReadChannel \/ TickWriteIfData \/ TickWriteData
    \/ TickWriteChannel \/ TickSleep \/ RunExcept

Shared(t) ==
    \/ ExecRead(t) \/ ReadTagOpen(t) \/ ReadTagSend(t) \/ ReadTagRecv(t)
    \/ ExecWrite(t) \/ WriteTagOpen(t) \/ WriteTagSend(t) \/ WriteTagRecv(t)
    \/ StopCheck(t) \/ StopFlag(t) \/ StopMode(t) \/ StopChannel(t)
    \/ StopData(t)

Caller ==
    \/ CallConnect \/ ConnectOpen \/ ConnectRunning \/ ConnectStart
    \/ CallDisconnect \/ DisconnectRunning \/ DisconnectClose
    \/ CallStop
    \/ CallStartRead \/ StartReadOpen \/ StartReadIf \/ StartReadIfMode
    \/ StartReadFlag \/ StartReadMode \/ StartReadChannel
    \/ CallStartWrite \/ StartWriteOpen \/ StartWriteIf \/ StartWriteIfMode
    \/ StartWriteFlag \/ StartWriteMode \/ StartWriteData
    \/ StartWriteChannel
    \/ CallReadTag \/ AppReadRunning \/ AppReadCase1 \/ AppReadCase1Mode
    \/ AppReadCase3 \/ ReadTag
    \/ CallWriteTag \/ AppWriteCase1 \/ AppWriteCase1Mode \/ AppWriteCase3
    \/ WriteTag
    \/ EditForm

Next == Worker \/ Caller \/ (\E t \in Threads : Shared(t))

Spec == Init /\ [][Next]_vars

\* ------------- a continuous write restarted with other arguments ----

\* The run of Spec in which the caller, once connected, calls
\* start_continuous_write(RecPLA, 2) and later, the form edited,
\* start_continuous_write(RecPETG, 5), and nothing else: the only
\* installations of the run are these two, and `call' tells which of
\* them have begun.
CallStartWriteFirst ==
    /\ call.op = "connect_reader"
    /\ is_running
    /\ form = RecPLA
    /\ Begin("start_continuous_write", Some(2), Some(form),
             "start_write_open", "idle")

CallStartWriteSecond ==
    /\ call = [op |-> "start_continuous_write", channel |-> Some(2),
               data |-> Some(RecPLA)]
    /\ form = RecPETG
    /\ Begin("start_continuous_write", Some(5), Some(form),
             "start_write_open", "idle")

RestartNext ==
    \/ CallConnect \/ ConnectOpen \/ ConnectRunning \/ ConnectStart
    \/ EditForm
    \/ CallStartWriteFirst \/ CallStartWriteSecond
    \/ StartWriteOpen \/ StartWriteIf \/ StartWriteIfMode
    \/ StartWriteFlag \/ StartWriteMode \/ StartWriteData
    \/ StartWriteChannel
    \/ RunWhile \/ RunIfAction \/ RunIfPort \/ RunModeRead \/ RunModeWrite
    \/ TickWriteIfData \/ TickWriteData \/ TickWriteChannel \/ TickSleep
    \/ RunExcept
    \/ ExecWrite(W) \/ WriteTagOpen(W) \/ WriteTagSend(W) \/ WriteTagRecv(W)
    \/ StopCheck(W) \/ StopFlag(W) \/ StopMode(W) \/ StopChannel(W)
    \/ StopData(W)

Restart == Init /\ [][RestartNext]_vars

\* The runs of RestartNext in which the caller may also, right after
\* connecting, call start_continuous_write({}, 2): a record without
\* fields, which _tag_data_to_bytes would encode with its defaults.
CallStartWriteEmpty ==
    /\ call.op = "connect_reader"
    /\ is_running
    /\ Begin("start_continuous_write", Some(2), Some(EmptyRecord),
             "start_write_open", "idle")

WriteEmptyNext == RestartNext \/ CallStartWriteEmpty

WriteEmpty == Init /\ [][WriteEmptyNext]_vars

\* ------------------------------------- the worker under fair scheduling ----

\* The runs of Spec in which the caller only connects, starts continuous
\* reads and writes, and disconnects, and in which the worker thread is
\* scheduled again and again: none of its steps blocks for ever
\* (time.sleep returns, the port is opened with timeout=1, main.py 77),
\* so a step of the worker that stays possible is eventually taken.
ShutdownNext ==
    \/ Worker \/ Shared(W)
    \/ CallConnect \/ ConnectOpen \/ ConnectRunning \/ ConnectStart
    \/ CallDisconnect \/ DisconnectRunning \/ DisconnectClose
    \/ CallStartRead \/ StartReadOpen \/ StartReadIf \/ StartReadIfMode
    \/ StartReadFlag \/ StartReadMode \/ StartReadChannel
    \/ CallStartWrite \/ StartWriteOpen \/ StartWriteIf \/ StartWriteIfMode
    \/ StartWriteFlag \/ StartWriteMode \/ StartWriteData
    \/ StartWriteChannel
    \/ StopCheck(C) \/ StopFlag(C) \/ StopMode(C) \/ StopChannel(C)
    \/ StopData(C)

WorkerScheduled == WF_vars(Worker \/ Shared(W))

Shutdown == Init /\ [][ShutdownNext]_vars /\ WorkerScheduled

\* ---------------- the protocol functions applied to chosen inputs ----

\* the records, channels and device responses write_tag is applied to
ProtocolRecords == { RecPLA, RecPETG }
ProtocolChannels == { -1, 0, 2, 7, 8, 256 }
ProtocolWriteResponses ==
    { <<>> }
    \cup { StatusFrame(18, sta, 2) : sta \in 0..3 }
    \cup { StatusFrame(18, sta, 7) : sta \in 0..1 }
    \* one byte altered: STA, CH, BCC, CMDC, FH, EOF
    \cup { << 239, 7, 18, 1, 2, 7, 254 >>, << 239, 7, 18, 0, 3, 7, 254 >>,
           << 239, 7, 18, 0, 2, 8, 254 >>, << 239, 7, 17, 0, 2, 7, 254 >>,
           << 238, 7, 18, 0, 2, 7, 254 >>, << 239, 7, 18, 0, 2, 7, 255 >> }
    \* too short, too long
    \cup { << 239, 7, 18, 0, 2, 7 >>, << 239, 7, 18, 0, 2, 7, 254, 0 >> }

\* what the port does during a transaction: closed; a short write; a
\* SerialException in write or in read; or nothing of these
PortBehaviours ==
    { [is_open |-> FALSE, full_write |-> TRUE, port_error |-> "none"],
      [is_open |-> TRUE, full_write |-> FALSE, port_error |-> "none"],
      [is_open |-> TRUE, full_write |-> TRUE, port_error |-> "write"],
      [is_open |-> TRUE, full_write |-> TRUE, port_error |-> "read"],
      [is_open |-> TRUE, full_write |-> TRUE, port_error |-> "none"] }

\* the arguments of one call of RFIDProtocol.write_tag, with what the
\* port does during it
WriteTagArgs ==
    { [fn |-> "write_tag_args", tag_data |-> d, channel |-> c,
       is_open |-> b.is_open, full_write |-> b.full_write,
       port_error |-> b.port_error, response |-> r] :
         d \in ProtocolRecords, c \in ProtocolChannels,
         b \in PortBehaviours, r \in ProtocolWriteResponses }

\* one call of RFIDProtocol.write_tag; io records the arguments, the
\* frame put on the transport and the result returned
WriteTagCall ==
    /\ io.fn = "write_tag_args"
    /\ LET r == write_tag(io.is_open, Some(io.tag_data), Some(io.channel),
                          io.full_write, io.response, io.port_error)
       IN  io' = [fn |-> "write_tag", is_open |-> io.is_open,
                  tag_data |-> io.tag_data, channel |-> io.channel,
                  full_write |-> io.full_write, response |-> io.response,
                  port_error |-> io.port_error,
                  sent |-> r.sent, result |-> r.result, ops |-> r.ops]
    /\ UNCHANGED << fields, locals, observed, form >>

\* the device responses read_tag and parse_rfid_response are applied to
ProtocolReadResponses ==
    { <<>>, StatusFrame(17, 2, 5), StatusFrame(17, 1, 5),
      ReadSuccessFrame(5, << 1, 2, 3 >>) }

\* the arguments of one call of RFIDProtocol.read_tag
ReadTagArgs ==
    { [fn |-> "read_tag_args", channel |-> c, is_open |-> b.is_open,
       full_write |-> b.full_write, port_error |-> b.port_error,
       response |-> r] :
         c \in ProtocolChannels, b \in PortBehaviours,
         r \in ProtocolReadResponses }

\* one call of RFIDProtocol.read_tag
ReadTagCall ==
    /\ io.fn = "read_tag_args"
    /\ LET r == read_tag(io.is_open, Some(io.channel), io.full_write,
                         io.response, io.port_error)
       IN  io' = [fn |-> "read_tag", is_open |-> io.is_open,
                  channel |-> io.channel, full_write |-> io.full_write,
                  response |-> io.response, port_error |-> io.port_error,
                  sent |-> r.sent, result |-> r.result, bytes |-> r.bytes,
                  ops |-> r.ops]
    /\ UNCHANGED << fields, locals, observed, form >>

\* the channels construct_read_command and construct_write_command are
\* applied to
ConstructChannels == -1..8

\* one call of construct_read_command
ConstructReadCall ==
    /\ io.fn = "construct_read_command_args"
    /\ LET r == construct_read_command(Some(io.channel))
       IN  io' = [fn |-> "construct_read_command", channel |-> io.channel,
                  status |-> r.status, frame |-> r.frame]
    /\ UNCHANGED << fields, locals, observed, form >>

\* a response frame  fh len cmdc sta ch payload BCC eof  with any header,
\* footer and LEN
ResponseFrame(fh, len_val, cmdc, sta, c, payload, eof) ==
    LET head == << fh, len_val, cmdc, sta, c >> \o payload
    IN  head \o << ComplementByte(XorAll(head)), eof >>

\* the byte strings parse_rfid_response is applied to: empty, shorter
\* than 7 bytes, and frames of 7, 9 and 10 bytes with right and wrong FH
\* and EOF, LEN right, too small and too large, CMDC of a read and of a
\* write, and STA 00, 01, 02 and 03
ParseInputs ==
    { <<>>, << 239 >>, << 239, 6, 17, 5, 2, 254 >>,
      << 239, 6, 17, 0, 5, 254 >> }
    \cup { ResponseFrame(fh, len_val, cmdc, sta, 5, payload, eof) :
             fh \in { 239, 238 }, len_val \in { 0, 6, 7, 8, 9, 10, 15, 200 },
             cmdc \in { 17, 18 }, sta \in 0..3,
             payload \in { <<>>, << 1, 2 >>, << 1, 2, 3 >> },
             eof \in { 254, 255 } }

\* one call of parse_rfid_response
ParseCall ==
    /\ io.fn = "parse_rfid_response_args"
    /\ LET r == parse_rfid_response(io.response)
       IN  io' = [fn |-> "parse_rfid_response", response |-> io.response,
                  value |-> r.value, log |-> r.log]
    /\ UNCHANGED << fields, locals, observed, form >>

\* one call of construct_write_command
ConstructWriteCall ==
    /\ io.fn = "construct_write_command_args"
    /\ LET r == construct_write_command(io.tag_data, Some(io.channel))
       IN  io' = [fn |-> "construct_write_command",
                  tag_data |-> io.tag_data, channel |-> io.channel,
                  status |-> r.status, frame |-> r.frame]
    /\ UNCHANGED << fields, locals, observed, form >>

\* the records _tag_data_to_bytes is applied to: manufacturers that are
\* empty, "eSU", 16 and 20 letters, " eSUN " and M, U+00E9, D; colours of
\* 5 and 40 letters; numbers inside and outside 0..65535
EncodeRecords ==
    { [RecPLA EXCEPT !.filament_manufacturer = m, !.color_name = c,
                     !.tag_version = v, !.density = d] :
        m \in { <<>>, << 101, 83, 85 >>, [i \in 1..16 |-> 64 + i],
                [i \in 1..20 |-> 64 + i], << 32, 101, 83, 85, 78, 32 >>,
                << 77, 233, 68 >> },
        c \in { << 87, 104, 105, 116, 101 >>,
                [i \in 1..40 |-> 97 + ((i - 1) % 26)] },
        v \in { -1, 0, 1000, 65535, 65536 },
        d \in { 1240, 70000 } }

\* one call of RFIDProtocol._tag_data_to_bytes: "raise" is the
\* struct.error of a struct.pack
EncodeCall ==
    /\ io.fn = "tag_data_to_bytes_args"
    /\ io' = IF tag_data_to_bytes_ok(io.tag_data)
             THEN [fn |-> "tag_data_to_bytes", tag_data |-> io.tag_data,
                   status |-> "ok", bytes |-> tag_data_to_bytes(io.tag_data)]
             ELSE [fn |-> "tag_data_to_bytes", tag_data |-> io.tag_data,
                   status |-> "raise", bytes |-> <<>>]
    /\ UNCHANGED << fields, locals, observed, form >>

\* the byte strings _parse_raw_tag_data is applied to, besides the
\* buffers _tag_data_to_bytes has produced: nothing, 75 and 76 zero
\* bytes, 112 bytes of 00 and of FF, and the buffer of RecPLA with the
\* manufacturer field  " PLA \0..", "PLA\0 \0..", "\0\0PLA\0..",
\* " \0PLA\0..", "\tPLA\n\0..", 16 letters and "P\xffLA\0.."
DecodeBuffers ==
    { <<>>, Zeros(75), Zeros(76), Zeros(112), [i \in 1..112 |-> 255] }
    \cup { Slice(tag_data_to_bytes(RecPLA), 0, 2) \o Ljust(f, 16)
             \o Slice(tag_data_to_bytes(RecPLA), 18, 112) :
             f \in { << 32, 80, 76, 65, 32 >>, << 80, 76, 65, 0, 32 >>,
                     << 0, 0, 80, 76, 65 >>, << 32, 0, 80, 76, 65 >>,
                     << 9, 80, 76, 65, 10 >>, [i \in 1..16 |-> 64 + i],
                     << 80, 255, 76, 65 >> } }

\* one call of RFIDReaderThread._parse_raw_tag_data, on a chosen byte
\* string or on the buffer _tag_data_to_bytes has just returned
\* (encoded_from is then the record that was encoded)
DecodeCall ==
    /\ \/ io.fn = "parse_raw_tag_data_args"
       \/ io.fn = "tag_data_to_bytes" /\ io.status = "ok"
    /\ LET raw_data == IF io.fn = "tag_data_to_bytes" THEN io.bytes
                       ELSE io.raw_data
           encoded_from == IF io.fn = "tag_data_to_bytes"
                           THEN Some(io.tag_data) ELSE None
       IN  io' = [fn |-> "parse_raw_tag_data", encoded_from |-> encoded_from,
                  raw_data |-> raw_data,
                  value |-> parse_raw_tag_data(raw_data)]
    /\ UNCHANGED << fields, locals, observed, form >>

\* the responses _execute_read_tag_once is applied to: none; a status
\* frame; success frames whose payload is empty, 3, 75, 76 and 112
\* bytes; the 75-byte frame with LEN one too large and LEN = 200; the
\* 112-byte frame with a wrong FH, a wrong EOF and STA = 02
ExecuteReadResponses ==
    LET rec == tag_data_to_bytes(RecPLA)
    IN  { <<>>, StatusFrame(17, 2, 5) }
        \cup { ReadSuccessFrame(5, Slice(rec, 0, n)) :
                 n \in { 0, 3, 75, 76, 112 } }
        \cup { ResponseFrame(239, len_val, 17, 0, 5, Slice(rec, 0, 75), 254) :
                 len_val \in { 83, 200 } }
        \cup { ResponseFrame(238, 119, 17, 0, 5, rec, 254),
               ResponseFrame(239, 119, 17, 0, 5, rec, 255),
               ResponseFrame(239, 119, 17, 2, 5, rec, 254) }

\* the arguments of one call of _execute_read_tag_once
ExecuteReadArgs ==
    { [fn |-> "execute_read_tag_once_args", channel |-> c,
       is_open |-> b.is_open, full_write |-> b.full_write,
       port_error |-> b.port_error, response |-> r] :
         c \in { -1, 5, 8 }, b \in PortBehaviours,
         r \in ExecuteReadResponses }

\* one call of RFIDReaderThread._execute_read_tag_once
ExecuteReadCall ==
    /\ io.fn = "execute_read_tag_once_args"
    /\ LET r == execute_read_tag_once(io.is_open, Some(io.channel),
                    io.full_write, io.response, io.port_error)
       IN  io' = [fn |-> "execute_read_tag_once", is_open |-> io.is_open,
                  channel |-> io.channel, full_write |-> io.full_write,
                  response |-> io.response, port_error |-> io.port_error,
                  status |-> r.status, returned |-> r.returned,
                  command_logged |-> r.command_logged, sent |-> r.sent,
                  data_received |-> r.data_received, log |-> r.log]
    /\ UNCHANGED << fields, locals, observed, form >>

\* the arguments of one call of _execute_write_tag_once
ExecuteWriteArgs ==
    { [fn |-> "execute_write_tag_once_args", tag_data |-> d, channel |-> c,
       is_open |-> b.is_open, full_write |-> b.full_write,
       port_error |-> b.port_error, response |-> r] :
         d \in ProtocolRecords \cup { EmptyRecord }, c \in { -1, 2, 7 },
         b \in PortBehaviours,
         r \in { <<>>, StatusFrame(18, 0, 2), StatusFrame(18, 2, 2) } }

\* one call of RFIDReaderThread._execute_write_tag_once: io keeps the
\* arguments and takes the fields of the result
ExecuteWriteCall ==
    /\ io.fn = "execute_write_tag_once_args"
    /\ io' = [fn |-> "execute_write_tag_once", is_open |-> io.is_open,
              tag_data |-> io.tag_data, channel |-> io.channel,
              full_write |-> io.full_write, response |-> io.response,
              port_error |-> io.port_error]
             @@ execute_write_tag_once(io.is_open, Some(io.tag_data),
                    Some(io.channel), io.full_write, io.response,
                    io.port_error)
    /\ UNCHANGED << fields, locals, observed, form >>

ProtocolInit ==
    /\ InitThread
    /\ io \in WriteTagArgs \cup ReadTagArgs
          \cup ExecuteReadArgs \cup ExecuteWriteArgs
          \cup { [fn |-> "tag_data_to_bytes_args", tag_data |-> d] :
                    d \in EncodeRecords }
          \cup { [fn |-> "parse_raw_tag_data_args", raw_data |-> b] :
                    b \in DecodeBuffers }
          \cup { [fn |-> "construct_read_command_args", channel |-> c] :
                    c \in ConstructChannels }
          \cup { [fn |-> "construct_write_command_args", tag_data |-> d,
                   channel |-> c] :
                    d \in ProtocolRecords, c \in ConstructChannels }
          \cup { [fn |-> "parse_rfid_response_args", response |-> r] :
                    r \in ParseInputs }

ProtocolNext ==
    \/ WriteTagCall \/ ReadTagCall
    \/ ExecuteReadCall \/ ExecuteWriteCall
    \/ ConstructReadCall \/ ConstructWriteCall
    \/ ParseCall
    \/ EncodeCall \/ DecodeCall

Protocol == ProtocolInit /\ [][ProtocolNext]_vars

\* ------------------------------------------------------ the claims ----

\* C1: every frame a write operation puts on the transport is exactly
\* 118 bytes: the byte EF, LEN = 0x76 equal to the frame's length,
\* CMDC = 0x12, the channel byte, the 112-byte encoded record, one BCC
\* byte and the byte FE.  (One-shot writes and continuous ticks both send
\* through RFIDProtocol.write_tag, main.py 261.)
C1_WriteFrameIs118Bytes ==
    (io.fn = "write_tag" /\ io.sent # <<>>) =>
        /\ Len(io.sent) = 118
        /\ io.sent[1] = 239
        /\ io.sent[2] = 118
        /\ io.sent[2] = Len(io.sent)
        /\ io.sent[3] = 18
        /\ io.sent[4] = io.channel
        /\ Slice(io.sent, 4, 116) = tag_data_to_bytes(io.tag_data)
        /\ io.sent[118] = 254

\* a 7-byte acknowledgement EF 07 12 STA ch BCC FE whose BCC is the
\* complement of the XOR of its first five bytes
WellFormedAck(bs) ==
    /\ Len(bs) = 7
    /\ bs[1] = 239 /\ bs[2] = 7 /\ bs[3] = 18 /\ bs[7] = 254
    /\ bs[6] = ComplementByte(XorAll(Slice(bs, 0, 5)))

\* C2: a well-formed acknowledgement with a correct BCC is reported as
\* success for STA = 00, authentication failure for STA = 01, no-tag for
\* STA = 02 and unknown status for any other STA.
C2_AckStatusReported ==
    (/\ io.fn = "write_tag"
     /\ io.is_open
     /\ io.full_write
     /\ WellFormedAck(io.response)) =>
        io.result = CASE io.response[4] = 0 -> "success"
                      [] io.response[4] = 1 -> "auth_failure"
                      [] io.response[4] = 2 -> "no_tag"
                      [] OTHER -> "unknown_status"

\* thread t has written a frame and has not yet read the response
InTransaction(t) == pc[t] \in { "read_tag_recv", "write_tag_recv" }

\* the controller states of the specification, as the fields spell them
Idle ==
    /\ ~is_performing_continuous_action
    /\ continuous_mode = "None"
    /\ continuous_action_channel = None
    /\ continuous_action_data = None

ContinuousReading(c) ==
    /\ is_performing_continuous_action
    /\ continuous_mode = "read"
    /\ continuous_action_channel = Some(c)

ContinuousWriting(c, r) ==
    /\ is_performing_continuous_action
    /\ continuous_mode = "write"
    /\ continuous_action_channel = Some(c)
    /\ continuous_action_data = Some(r)

\* the caller's last call has returned and it has issued nothing since
Returned(op) == pc[C] = "idle" /\ call.op = op

\* the start call went past its connection check and ran to its end
Started(mode) ==
    call_events # <<>> /\ call_events[Len(call_events)] = << TRUE, mode >>

\* C3: no two frame transactions ever overlap on the same transport, in
\* any interleaving of the worker's ticks with the caller's one-shot
\* requests.
C3_NoOverlappingTransactions == ~(InTransaction(W) /\ InTransaction(C))

\* C4: after start_continuous_write(record, 2) followed by
\* start_continuous_read(5) the controller ends in ContinuousReading(5)
\* and stays there.
C4_WriteThenReadEndsReading ==
    (/\ Returned("start_continuous_read")
     /\ call.channel = Some(5)
     /\ call_pre = << TRUE, "write", Some(2) >>
     /\ Started("read")) => ContinuousReading(5)

\* C5: a tick that hits a transport-level failure leaves the controller
\* Idle.
C5_TransportFailureForcesIdle ==
    (pc[W] = "tick_sleep" /\ outcome \in TransportFailures) => Idle

\* C6: while the controller is in ContinuousReading(c) and the caller
\* issues nothing, any number of consecutive ticks that end in a device
\* status error leave it in ContinuousReading(c), and the loop goes on
\* to the next tick (the streak grows).
C6_StatusErrorKeepsReading ==
    streak >= 1 =>
        /\ pc[C] = "idle"
        /\ \E c \in Channels : ContinuousReading(c)

\* three status errors in a row, still reading
C6_Witness ==
    /\ streak >= 3
    /\ pc[W] = "tick_sleep"
    /\ outcome = "sta_02"
    /\ ContinuousReading(5)

\* C7: the transport is never closed while a tick's transaction is still
\* in progress.
C7_NoCloseDuringTransaction == InTransaction(W) => port_open

\* C8: after stop() has returned and while no later start is issued, the
\* worker loop writes at most one more frame (the tick whose top-of-tick
\* check had already passed), and none after it.
C8_AtMostOneTickAfterStop == worker_sends <= 1

\* the late tick has happened after a stop of a continuous action
C8_Witness ==
    /\ worker_sends = 1
    /\ Returned("stop_continuous_action")
    /\ call_events = << << FALSE, "" >> >>
    /\ pc[W] = "run_while"

\* C9: stop() is idempotent.  When its check finds no continuous action
\* it returns at once, changing no field and emitting no log or status
\* event; when it finds one it leaves the controller Idle and emits
\* exactly one inactive status event; and once a stop has returned the
\* controller stays inactive until the caller issues something, so a
\* second stop is the no-op.
C9_StopIdempotent ==
    [][ /\ (/\ call.op = "stop_continuous_action"
            /\ pc[C] = "stop_check" /\ pc'[C] # "stop_check"
            /\ ~is_performing_continuous_action)
           => (/\ pc'[C] = "idle"
               /\ UNCHANGED fields
               /\ call_events' = <<>> /\ call_logs' = 0)
        /\ (/\ call.op = "stop_continuous_action"
            /\ pc[C] = "stop_data" /\ pc'[C] # "stop_data")
           => (/\ pc'[C] = "idle"
               /\ Idle'
               /\ call_events' = << << FALSE, "" >> >> /\ call_logs' = 1)
        /\ (Returned("stop_continuous_action") /\ pc'[C] = "idle")
           => ~is_performing_continuous_action'
      ]_vars

\* a stop that found a continuous read has returned
C9_Witness ==
    /\ Returned("stop_continuous_action")
    /\ call_events = << << FALSE, "" >> >>
    /\ call_logs = 1
    /\ Idle

\* C10: with the transport connected, start_continuous_read(c) issued in
\* Idle or in ContinuousWriting leaves the controller in
\* ContinuousReading(c), and start_continuous_write(c, r) issued in Idle
\* or in ContinuousReading leaves it in ContinuousWriting(c, r); when the
\* call switches mode, an inactive status event precedes the active one.
C10_StartLeavesContinuous ==
    /\ (/\ Returned("start_continuous_read")
        /\ Started("read")
        /\ (~call_pre[1] \/ call_pre[2] = "write"))
       => (/\ ContinuousReading(call.channel[1])
           /\ (call_pre[1] /\ call_pre[2] = "write")
                => call_events = << << FALSE, "" >>, << TRUE, "read" >> >>)
    /\ (/\ Returned("start_continuous_write")
        /\ Started("write")
        /\ (~call_pre[1] \/ call_pre[2] = "read"))
       => (/\ ContinuousWriting(call.channel[1], call.data[1])
           /\ (call_pre[1] /\ call_pre[2] = "read")
                => call_events = << << FALSE, "" >>, << TRUE, "write" >> >>)

C12_InvalidChannelNeverSent ==
    (/\ io.fn \in { "read_tag", "write_tag" }
     /\ io.channel \notin 0..7)
        => (io.sent = <<>> /\ io.ops = <<>>)

\* C13: for every channel c in 0..7 construct_read_command(c) returns
\* exactly the frame EF 06 11 c (7-c) FE; for a channel outside 0..7 it
\* returns the invalid-channel result (None) and no frame.
C13_ReadCommandMatchesTable ==
    io.fn = "construct_read_command" =>
        /\ io.status = "ok"
        /\ io.frame = IF io.channel \in 0..7
                      THEN Some(<< 239, 6, 17, io.channel, 7 - io.channel,
                                   254 >>)
                      ELSE None

\* channel 7 gave EF 06 11 07 00 FE
C13_Witness ==
    /\ io.fn = "construct_read_command"
    /\ io.channel = 7
    /\ io.frame = Some(<< 239, 6, 17, 7, 0, 254 >>)

\* C14: for every channel in 0..7 and every record construct_write_command
\* returns the frame EF 76 12 channel payload(112) BCC FE, with LEN = 118
\* equal to the frame's length, the payload the record's 112-byte
\* encoding and BCC the complement of the XOR of the bytes from FH to
\* the last payload byte; for a channel outside 0..7 it returns no frame.
C14_WriteCommandWellFormed ==
    io.fn = "construct_write_command" =>
        IF io.channel \in 0..7
        THEN /\ io.status = "ok"
             /\ io.frame # None
             /\ LET f == io.frame[1]
                IN  /\ Len(f) = 118
                    /\ f[1] = 239 /\ f[2] = 118 /\ f[3] = 18
                    /\ f[4] = io.channel
                    /\ Slice(f, 4, 116) = tag_data_to_bytes(io.tag_data)
                    /\ f[117] = ComplementByte(XorAll(Slice(f, 0, 116)))
                    /\ f[118] = 254
        ELSE io.frame = None

\* C15: a 7-byte acknowledgement with valid header, LEN, CMDC and EOF
\* whose received BCC differs from the recomputed one (one byte of STA,
\* CH or BCC altered) makes the write fail with the acknowledgement
\* checksum error, which is not the frame-format error nor a status
\* outcome.
C15_TamperedAckIsChecksumError ==
    (/\ io.fn = "write_tag"
     /\ io.sent # <<>>
     /\ io.full_write
     /\ io.port_error = "none"
     /\ Len(io.response) = 7
     /\ io.response[1] = 239 /\ io.response[2] = 7
     /\ io.response[3] = 18 /\ io.response[7] = 254
     /\ io.response[6] # ComplementByte(XorAll(Slice(io.response, 0, 5))))
        => io.result = "bcc_error"

\* the response has at least 7 bytes, FH = EF and EOF = FE
ValidEnvelope(bs) ==
    Len(bs) >= 7 /\ bs[1] = 239 /\ bs[Len(bs)] = 254

\* C16: for a response of at least 7 bytes with FH = EF, EOF = FE and
\* STA = 00, parse_rfid_response returns exactly the bytes between the
\* channel byte (index 4) and the BCC byte (second to last), whatever
\* LEN says; when there are none it returns the empty payload, not an
\* error.
C16_PayloadBetweenChannelAndBcc ==
    (/\ io.fn = "parse_rfid_response"
     /\ ValidEnvelope(io.response)
     /\ io.response[4] = 0)
        => io.value = Some(Slice(io.response, 5, Len(io.response) - 2))

\* the outcome the specification assigns to a response
ExpectedOutcome(bs) ==
    IF ~ValidEnvelope(bs) THEN "protocol_error"
    ELSE CASE bs[4] = 0 -> "payload"
           [] bs[4] = 1 -> "auth_failure"
           [] bs[4] = 2 -> "no_tag"
           [] OTHER -> "unknown_status"

\* C17: the result of parse_rfid_response tells the outcomes apart:
\* authentication failure (STA = 01), no tag (STA = 02), unknown status
\* (any other non-zero STA) and the protocol error of a bad header or
\* footer give results that differ from one another.
C17_OutcomesDistinguishable ==
    (io.fn = "parse_rfid_response"
       /\ ExpectedOutcome(io.response) # "payload")
        => \A bs \in ParseInputs :
             (/\ ExpectedOutcome(bs) # "payload"
              /\ ExpectedOutcome(bs) # ExpectedOutcome(io.response))
                => parse_rfid_response(bs).value # io.value

\* C18: parse_rfid_response is total: every byte string gets a result,
\* None or a payload, and an input shorter than 7 bytes or with FH # EF
\* or EOF # FE gets None, never a payload.
C18_ParseTotal ==
    io.fn = "parse_rfid_response" =>
        /\ io.value = None \/ Len(io.value) = 1
        /\ ~ValidEnvelope(io.response) => io.value = None

\* a frame of 10 bytes with STA = 00 and a wrong EOF was refused
C18_Witness ==
    /\ io.fn = "parse_rfid_response"
    /\ Len(io.response) = 10
    /\ io.response[1] = 239 /\ io.response[4] = 0
    /\ io.response[10] = 255
    /\ io.value = None

\* C19: a LEN that differs from the number of bytes received does not by
\* itself make the parse fail: with valid FH and EOF, STA = 00 still
\* gives a success result and any other STA the outcome of that status.
C19_LenMismatchTolerated ==
    (/\ io.fn = "parse_rfid_response"
     /\ ValidEnvelope(io.response)
     /\ io.response[2] # Len(io.response))
        => CASE io.response[4] = 0 -> io.value # None
             [] io.response[4] = 1 -> io.value = None /\ io.log = "sta_01"
             [] io.response[4] = 2 -> io.value = None /\ io.log = "sta_02"
             [] OTHER -> io.value = None /\ io.log = "sta_unknown"

\* a 10-byte frame with STA = 00 that declares LEN = 15 was parsed to a
\* payload
C19_Witness ==
    /\ io.fn = "parse_rfid_response"
    /\ ValidEnvelope(io.response)
    /\ Len(io.response) = 10
    /\ io.response[2] = 15
    /\ io.response[4] = 0
    /\ io.value # None

\* how many times the transaction called op on the port
Count(ops, op) == Cardinality({ i \in DOMAIN ops : ops[i] = op })

\* C20: a read or write transaction clears the transport buffers, sends
\* its frame once, waits once and reads the transport at most once; when
\* nothing is available after the wait it fails with a timeout without
\* reading; whatever the failure, the frame is not sent again.
C20_SingleBoundedTransaction ==
    (io.fn \in { "read_tag", "write_tag" } /\ io.ops # <<>>) =>
        /\ Slice(io.ops, 0, 3)
             = << "reset_input_buffer", "reset_output_buffer", "write" >>
        /\ Count(io.ops, "write") = 1
        /\ Count(io.ops, "sleep") <= 1
        /\ Count(io.ops, "read") <= 1
        /\ (io.full_write /\ io.port_error = "none" /\ io.response = <<>>)
             => (io.result = "timeout" /\ Count(io.ops, "read") = 0)
        /\ io.result \in { "short_write", "serial_error", "timeout" }
             => (io.sent # <<>> /\ Count(io.ops, "write") = 1)

\* a read transaction that found nothing after its one wait
C20_Witness ==
    /\ io.fn = "read_tag"
    /\ io.result = "timeout"
    /\ io.sent = << 239, 6, 17, 2, 5, 254 >>
    /\ io.ops = << "reset_input_buffer", "reset_output_buffer", "write",
                   "sleep", "in_waiting" >>


\* bytes n+1..n+width of bs are s cut to width bytes and filled up with
\* zero bytes
FieldAt(bs, n, width, s) ==
    \A i \in 1..width : bs[n + i] = IF i <= Len(s) THEN s[i] ELSE 0

\* bytes n+1, n+2 of bs are v as a big-endian uint16
Uint16At(bs, n, v) == bs[n + 1] * 256 + bs[n + 2] = v

\* C21: the encoding of a tag record is exactly 112 bytes with every
\* field at its fixed offset: version at 0-1, manufacturer at 2-17,
\* material at 18-33, colour at 34-65, the five numbers as big-endian
\* uint16 at 66-75 and zeros at 76-111; a string longer than its field
\* is cut to the field's width, a shorter one is followed by zero bytes.
C21_EncodingLayout ==
    (io.fn = "tag_data_to_bytes" /\ io.status = "ok") =>
        LET r == io.tag_data
            b == io.bytes
        IN  /\ Len(b) = 112
            /\ \A i \in 1..112 : b[i] \in 0..255
            /\ Uint16At(b, 0, r.tag_version)
            /\ FieldAt(b, 2, 16, AsciiIgnore(r.filament_manufacturer))
            /\ FieldAt(b, 18, 16, AsciiIgnore(r.material_name))
            /\ FieldAt(b, 34, 32, AsciiIgnore(r.color_name))
            /\ Uint16At(b, 66, r.diameter_target)
            /\ Uint16At(b, 68, r.weight_nominal)
            /\ Uint16At(b, 70, r.print_temp)
            /\ Uint16At(b, 72, r.bed_temp)
            /\ Uint16At(b, 74, r.density)
            /\ \A i \in 77..112 : b[i] = 0

\* a record with a manufacturer of 20 letters and a colour of 40 was
\* encoded: the manufacturer field holds the first 16 letters
C21_Witness ==
    /\ io.fn = "tag_data_to_bytes"
    /\ io.status = "ok"
    /\ Len(io.tag_data.filament_manufacturer) = 20
    /\ Len(io.tag_data.color_name) = 40
    /\ Slice(io.bytes, 2, 18) = [i \in 1..16 |-> 64 + i]
    /\ Len(io.bytes) = 112

\* C22: _tag_data_to_bytes never fails: for any record, numbers below 0
\* or above 65535 included, it returns a buffer of 112 bytes.
C22_EncodeNeverFails ==
    io.fn = "tag_data_to_bytes" =>
        (io.status = "ok" /\ Len(io.bytes) = 112)


\* the field values of record r are within their declared ranges: the
\* numbers are uint16, the strings ASCII and no longer than their field
InDeclaredRanges(r) ==
    /\ \A v \in { r.tag_version, r.diameter_target, r.weight_nominal,
                   r.print_temp, r.bed_temp, r.density } : v \in 0..65535
    /\ Len(r.filament_manufacturer) <= 16
    /\ Len(r.material_name) <= 16
    /\ Len(r.color_name) <= 32
    /\ \A s \in { r.filament_manufacturer, r.material_name, r.color_name } :
          \A i \in 1..Len(s) : s[i] \in 0..127

\* string s neither begins nor ends with a zero character or whitespace
NoPaddingAtEnds(s) ==
    s # <<>> => (/\ s[1] \notin WHITESPACE \cup { 0 }
                 /\ s[Len(s)] \notin WHITESPACE \cup { 0 })

\* C23 (as stated): decode(encode(r)) = r for every record r whose field
\* values are within their declared ranges.
C23_RoundTrip ==
    (/\ io.fn = "parse_raw_tag_data"
     /\ io.encoded_from # None
     /\ InDeclaredRanges(io.encoded_from[1]))
        => io.value = io.encoded_from

\* C23 (amended): decode(encode(r)) = r for every record r whose field
\* values are within their declared ranges and whose strings neither
\* begin nor end with whitespace or a zero character.
C23_RoundTripOfTrimmed ==
    (/\ io.fn = "parse_raw_tag_data"
     /\ io.encoded_from # None
     /\ InDeclaredRanges(io.encoded_from[1])
     /\ NoPaddingAtEnds(io.encoded_from[1].filament_manufacturer)
     /\ NoPaddingAtEnds(io.encoded_from[1].material_name)
     /\ NoPaddingAtEnds(io.encoded_from[1].color_name))
        => io.value = io.encoded_from

\* the buffer of a record with a manufacturer of 16 letters and the
\* largest version number was decoded to the same record
C23_Witness ==
    /\ io.fn = "parse_raw_tag_data"
    /\ io.encoded_from # None
    /\ InDeclaredRanges(io.encoded_from[1])
    /\ Len(io.encoded_from[1].filament_manufacturer) = 16
    /\ io.encoded_from[1].tag_version = 65535
    /\ io.value = io.encoded_from

\* v is a contiguous part of s, and what s has before and after it are
\* members of chars only
CutFrom(v, s, chars) ==
    \E a \in 0..(Len(s) - Len(v)) :
        /\ v = SubSeq(s, a + 1, a + Len(v))
        /\ \A i \in 1..a : s[i] \in chars
        /\ \A i \in (a + Len(v) + 1)..Len(s) : s[i] \in chars

\* v is what the field s of a buffer decodes to: s without bytes above
\* 127, cut at both ends by zero bytes and whitespace only, with no
\* whitespace left at either end; and when s is a text without zero
\* bytes and surrounding whitespace followed by zero bytes, v is that text
DecodedField(v, s) ==
    LET ascii == SelectSeq(s, LAMBDA b : b < 128)
    IN  /\ Len(v) <= Len(ascii)
        /\ CutFrom(v, ascii, WHITESPACE \cup { 0 })
        /\ v # <<>> => (v[1] \notin WHITESPACE /\ v[Len(v)] \notin WHITESPACE)
        /\ \A n \in 0..Len(ascii) :
              (/\ \A i \in (n + 1)..Len(ascii) : ascii[i] = 0
               /\ \A i \in 1..n : ascii[i] # 0
               /\ n > 0 => (ascii[1] \notin WHITESPACE
                            /\ ascii[n] \notin WHITESPACE))
                 => v = SubSeq(ascii, 1, n)

\* C24: _parse_raw_tag_data succeeds on every buffer of 112 bytes and
\* returns a record with all nine fields; a buffer of zeros decodes to
\* empty strings and zero numbers; the ASCII fields come without their
\* trailing zero bytes and without surrounding whitespace.
C24_DecodeTotal ==
    (io.fn = "parse_raw_tag_data" /\ Len(io.raw_data) = 112) =>
        /\ io.value # None
        /\ DOMAIN io.value[1] = DOMAIN RecPLA
        /\ \A f \in { "tag_version", "diameter_target", "weight_nominal",
                       "print_temp", "bed_temp", "density" } :
              io.value[1][f] \in 0..65535
        /\ io.raw_data = Zeros(112) =>
              io.value[1] = TagData(0, <<>>, <<>>, <<>>, 0, 0, 0, 0, 0)
        /\ DecodedField(io.value[1].filament_manufacturer,
                        SubSeq(io.raw_data, 3, 18))
        /\ DecodedField(io.value[1].material_name,
                        SubSeq(io.raw_data, 19, 34))
        /\ DecodedField(io.value[1].color_name,
                        SubSeq(io.raw_data, 35, 66))

\* a buffer whose manufacturer field is " PLA " followed by zero bytes
\* was decoded to a record whose manufacturer is "PLA"
C24_Witness ==
    /\ io.fn = "parse_raw_tag_data"
    /\ Len(io.raw_data) = 112
    /\ SubSeq(io.raw_data, 3, 8) = << 32, 80, 76, 65, 32, 0 >>
    /\ io.value # None
    /\ io.value[1].filament_manufacturer = << 80, 76, 65 >>


\* the results of write_tag that are decided by the STA byte
StaResults == { "success", "auth_failure", "no_tag", "unknown_status" }

WithBcc(bs, b) == [bs EXCEPT ![Len(bs) - 1] = b]

\* C28: the result of parsing a read response does not depend on its
\* BCC byte: a response that differs from the parsed one in the BCC byte
\* only gives the same result; and a write acknowledgement whose BCC is
\* wrong is never accepted as success.
C28_ReadIgnoresBccWriteChecksIt ==
    /\ (io.fn = "parse_rfid_response" /\ Len(io.response) >= 7) =>
          \A b \in 0..255 :
              parse_rfid_response(WithBcc(io.response, b)).value = io.value
    /\ (/\ io.fn = "write_tag"
        /\ Len(io.response) = 7
        /\ io.response[6] # 255 - XorAll(SubSeq(io.response, 1, 5)))
          => io.result # "success"

\* C29: in every write command frame put on the transport, the byte
\* that follows the 112-byte payload is the BCC: the complement, within
\* one byte, of the XOR of all the bytes before it in the frame.
C29_BccFollowsPayload ==
    (io.fn = "write_tag" /\ io.sent # <<>>) =>
        \E k \in 0..(Len(io.sent) - 113) :
            /\ SubSeq(io.sent, k + 1, k + 112)
                  = tag_data_to_bytes(io.tag_data)
            /\ io.sent[k + 113] \in 0..255
            /\ io.sent[k + 113] = 255 - XorAll(SubSeq(io.sent, 1, k + 112))

\* a write frame for channel 7 was handed to serial_port.write
C29_Witness ==
    /\ io.fn = "write_tag"
    /\ io.channel = 7
    /\ io.ops # <<>>
    /\ Len(io.sent) > 113
    /\ \E k \in 0..(Len(io.sent) - 113) :
          SubSeq(io.sent, k + 1, k + 112) = tag_data_to_bytes(io.tag_data)


\* thread t is inside stop_continuous_action
InStop(t) ==
    pc[t] \in { "stop_check", "stop_flag", "stop_mode", "stop_channel",
                "stop_data" }

\* the caller is inside start_continuous_read or start_continuous_write
InStart ==
    pc[C] \in { "start_read_open", "start_read_if", "start_read_if_mode",
                "start_read_flag", "start_read_mode", "start_read_channel",
                "start_write_open", "start_write_if", "start_write_if_mode",
                "start_write_flag", "start_write_mode", "start_write_data",
                "start_write_channel" }

\* C27: whenever no start or stop call is in progress, in the caller or
\* in the worker (its stop after an error), the fields form one of the
\* three declared states: Idle, ContinuousReading(channel) or
\* ContinuousWriting(channel, record).
C27_FieldsFormDeclaredState ==
    (~InStart /\ ~InStop(C) /\ ~InStop(W) /\ pc[W] # "run_except") =>
        \/ Idle
        \/ \E c \in Channels : ContinuousReading(c)
        \/ \E c \in Channels, r \in Records : ContinuousWriting(c, r)

\* the caller is inside RFIDReaderThread.read_tag or write_tag (a
\* one-shot operation)
InOneShot ==
    pc[C] \in { "read_tag", "exec_read", "read_tag_open", "read_tag_send",
                "read_tag_recv", "write_tag", "exec_write", "write_tag_open",
                "write_tag_send", "write_tag_recv" }

\* C30: a one-shot read or write, whether it succeeds or fails, leaves
\* the continuous action state (flag, mode, channel, record) as it is
\* and emits no continuous_action_status_changed event: no step of
\* RFIDReaderThread.read_tag or write_tag changes them.
C30_OneShotLeavesContinuousState ==
    [][ (InOneShot /\ pc'[C] # pc[C])
          => (continuous' = continuous /\ call_events' = call_events)
      ]_vars

\* a one-shot write has sent its frame; the controller is Idle as it
\* was when the call began and no status event has been emitted
C30_Witness ==
    /\ call.op = "write_tag"
    /\ pc[C] = "write_tag_recv"
    /\ call_events = <<>>
    /\ Idle


\* the (channel, record) pairs installed by the start calls that have
\* begun so far in a run of Restart
Installed ==
    IF call.op # "start_continuous_write" THEN {}
    ELSE IF call.channel = Some(2)
    THEN { << Some(2), Some(RecPLA) >> }
    ELSE { << Some(2), Some(RecPLA) >>, << Some(5), Some(RecPETG) >> }

\* C26: every tick executed by the worker uses a mode, channel and
\* record that were installed together by a single start call: in no
\* interleaving does a tick run with a channel or record of another
\* start call, or with one that is not set.  (In a run of Restart all
\* start calls are continuous writes.)
C26_TickUsesOneInstallation ==
    /\ pc[W] # "exec_read"
    /\ pc[W] = "exec_write" => << ch[W], data[W] >> \in Installed

\* C37: when the transport accepts fewer bytes than the command frame
\* has, the read or write transaction fails at once with the short-write
\* transport error: after the one write it does not sleep, does not ask
\* for waiting bytes and reads nothing, even when a response is there.
C37_ShortWriteFailsAtOnce ==
    (/\ io.fn \in { "read_tag", "write_tag" }
     /\ io.is_open
     /\ io.sent # <<>>
     /\ ~io.full_write) =>
        /\ io.result = "short_write"
        /\ io.result \in TransportFailures
        /\ io.ops = << "reset_input_buffer", "reset_output_buffer", "write" >>
        /\ Count(io.ops, "sleep") = 0
        /\ Count(io.ops, "in_waiting") = 0
        /\ Count(io.ops, "read") = 0

\* a read whose frame was written short while a whole success response
\* was waiting in the input buffer
C37_Witness ==
    /\ io.fn = "read_tag"
    /\ io.is_open
    /\ ~io.full_write
    /\ io.sent = PREDEFINED_READ_COMMANDS[2]
    /\ io.response = ReadSuccessFrame(5, << 1, 2, 3 >>)
    /\ io.result = "short_write"

\* a response was received: the port was open, took the whole frame,
\* raised nothing and had bytes waiting after the delay
ResponseReceived ==
    /\ io.is_open
    /\ io.full_write
    /\ io.port_error = "none"
    /\ io.response # <<>>

\* C36: a read of one channel returns success exactly when the channel
\* is one of 0..7, a response was received, it has the header EF and the
\* footer FE and STA = 00 -- also when the extracted payload is empty or
\* too short to be decoded into a record; an invalid channel, a
\* transport failure, a malformed frame and a non-zero status all return
\* failure.
C36_ReadSucceedsOnStaZero ==
    (io.fn = "execute_read_tag_once" /\ io.status = "ok") =>
        /\ io.returned <=> (/\ io.channel \in 0..7
                            /\ ResponseReceived
                            /\ ValidEnvelope(io.response)
                            /\ io.response[4] = 0)
        /\ io.channel \notin 0..7 => (~io.returned /\ io.sent = <<>>)
        /\ io.log \in TransportFailures
                        \cup { "invalid_channel", "parse_failed" }
             => ~io.returned

\* a read that succeeded although the 75 bytes of its payload could not
\* be decoded into a record
C36_Witness ==
    /\ io.fn = "execute_read_tag_once"
    /\ io.returned
    /\ io.response = ReadSuccessFrame(5, Slice(tag_data_to_bytes(RecPLA), 0, 75))
    /\ io.log = "not_a_record"
    /\ io.data_received = <<>>

\* C34: one read emits at most one data event, and only for a response
\* that was received, has the header EF and the footer FE, STA = 00 and
\* carries at least 76 payload bytes between its channel byte and its
\* BCC byte; transport failures, malformed frames, status errors, empty
\* payloads and payloads shorter than 76 bytes produce no data event.
C34_DataEventOnlyForWholeRecord ==
    io.fn = "execute_read_tag_once" =>
        /\ Len(io.data_received) <= 1
        /\ io.data_received # <<>> =>
             /\ ResponseReceived
             /\ ValidEnvelope(io.response)
             /\ io.response[4] = 0
             /\ Len(io.response) - 7 >= 76

\* C31: in every read and every write that puts a frame on the
\* transport, the frame the controller built and logged as about to be
\* sent is, byte for byte, the frame written to the transport.
C31_LoggedFrameIsSentFrame ==
    (/\ io.fn \in { "execute_read_tag_once", "execute_write_tag_once" }
     /\ io.sent # <<>>)
        => io.command_logged = Some(io.sent)

\* C33: start_continuous_read or start_continuous_write called while
\* the transport is absent or closed returns at its connection check:
\* the step changes none of the four state fields and the call ends
\* having emitted no continuous-status event and without having gone
\* through stop_continuous_action, so nothing that was active is
\* cancelled.
C33_StartWithoutTransportChangesNothing ==
    [][(/\ pc[C] \in { "start_read_open", "start_write_open" }
        /\ ~port_open
        /\ pc'[C] # pc[C])
         => /\ pc'[C] = "idle"
            /\ continuous' = continuous
            /\ call_events' = <<>>
            /\ call_logs' = 0]_vars

\* start_continuous_read(5) has returned on a closed port, leaving
\* behind the channel an earlier interleaving had left set
C33_Witness ==
    /\ Returned("start_continuous_read")
    /\ call.channel = Some(5)
    /\ ~port_open
    /\ call_events = <<>>
    /\ continuous_action_channel = Some(2)
    /\ continuous_mode = "None"

\* C32: when an exception has escaped a tick, the except branch of run
\* stops the continuous action: at the step where the worker's
\* stop_continuous_action returns, with no call of the caller in
\* progress, the controller is Idle, and the worker is back at the head
\* of its loop (it has not terminated), so that a later start call is
\* served.
C32_EscapedExceptionLeavesIdleAndLoopRunning ==
    [][(/\ pc[W] \in { "stop_check", "stop_data" }
        /\ pc'[W] # pc[W]
        /\ pc'[W] \notin { "stop_flag" }
        /\ pc[C] = "idle")
         => /\ pc'[W] = "run_while"
            /\ Idle']_vars

\* C38: while a continuous write is active and the transport is open,
\* every tick performs one write transaction with the captured record
\* and channel and logs its outcome -- also when the captured record has
\* no fields.  Stated at the end of a tick that ran wholly after
\* start_continuous_write(record, channel) had returned, with the four
\* fields as that call left them.
C38_EveryWriteTickWritesAndLogs ==
    (/\ pc[W] = "tick_sleep"
     /\ streak >= 0
     /\ Returned("start_continuous_write")
     /\ Started("write")
     /\ port_open
     /\ ContinuousWriting(call.channel[1], call.data[1]))
        => /\ outcome # "none"
           /\ data[W] = call.data
           /\ ch[W] = call.channel

\* C35: after disconnect has cleared the running flag, and unless a
\* later connect sets it again, the worker loop terminates, whatever
\* continuous state it was in; and once it has terminated it takes no
\* further step until a connect starts it again.
C35_WorkerTerminatesAfterDisconnect ==
    /\ ~is_running ~> (pc[W] = "finished" \/ is_running)
    /\ [][(pc[W] = "finished" /\ pc'[W] # "finished")
            => pc[C] = "connect_start"]_vars

\* disconnect has returned after stopping an active continuous action,
\* and the worker has terminated
C35_Witness ==
    /\ Returned("disconnect_reader")
    /\ call_events = << << FALSE, "" >> >>
    /\ ~is_running
    /\ pc[W] = "finished"

=============================================================================
